---- MODULE Spec2Model ----
(***************************************************************************)
(* Model of the roadmap-generator backend: the token service               *)
(* (backend/utils/jwt.js), the auth middleware (backend/middleware/auth.js),*)
(* the auth routes (backend/routes/auth.js), the user routes               *)
(* (routes/user.js), the Roadmap model and the roadmap routes; and of the  *)
(* browser: the parser of the AI response (services/llmApiService.ts), the *)
(* auth context (contexts/AuthContext.tsx), the dashboard                  *)
(* (components/Dashboard.tsx) and the roadmap store                        *)
(* (store/roadmapStore.ts).                                                *)
(*                                                                         *)
(* Spec         : the credential store and the auth/user routes, one       *)
(*                request at a time.                                       *)
(* SpecConc     : the credential store with two requests of one account    *)
(*                in flight, each split at its "await user.save()".        *)
(* SpecRoadmap  : the roadmap store and the roadmap routes.                *)
(* SpecProgress : the progress block of roadmaps of up to MaxLength steps. *)
(* SpecToggle   : steps of one roadmap completed and reopened in order.    *)
(* SpecListing  : the listings and the single fetch over a collection of   *)
(*                private, public and shared roadmaps.                     *)
(* SpecRegister : two registrations in flight, each split between its      *)
(*                look-up and its insert.                                  *)
(* SpecLogins   : logins of one registered account in flight.              *)
(* SpecSteps    : step completions of one roadmap in flight, each split    *)
(*                at the write of save().                                  *)
(* SpecParse    : one AI response handed to parseRoadmapResponse.          *)
(* SpecContext  : the auth context and the dashboard, with up to MaxCalls  *)
(*                calls waiting for the server.                            *)
(* SpecChat     : the roadmap store, its chats and their reply timers.     *)
(***************************************************************************)
EXTENDS Integers, Sequences, FiniteSets, TLC

(***************************************************************************)
(* Bounds of the model.                                                    *)
(***************************************************************************)
\* registrations over a run; a user's _id is never reused
MaxUsers == 2
\* the clock is sampled at seconds 0..MaxSecond and at the two expiry horizons
MaxSecond == 1
\* distinct token pairs generateTokens hands out over a run
MaxMints == 2
\* longest run of logins after a registration that hist follows
MaxHist == 7
\* requests the server has in flight at the same time
MaxProcs == 2
\* documents the roadmaps collection holds over a run; a roadmap's _id is
\* never reused
MaxRoadmaps == 2
\* roadmaps created over a run of the roadmap store whose steps are edited
MaxEdited == 1
\* nodes in the AI response the browser parses
MaxNodes == 3
\* edges in the AI response the browser parses
MaxEdges == 2
\* steps of the roadmap whose steps are completed by requests served at
\* the same time
MaxRaced == 3
\* calls of the auth context that wait for the server at the same time
MaxCalls == 2
\* distinct token pairs the server answers the browser with
MaxPairs == 2

\* the messages the user types in the chats
MaxMessages == 2
\* steps in the payload of a create or update request
MaxSteps == 2
\* steps of a roadmap document whose progress block is computed on its own
MaxLength == 40

(***************************************************************************)
(* Program constants.                                                      *)
(***************************************************************************)
\* JWT_EXPIRE = '7d', in seconds
JWT_EXPIRE == 604800
\* JWT_REFRESH_EXPIRE = '30d', in seconds
JWT_REFRESH_EXPIRE == 2592000
\* login keeps only the last 5 refresh tokens
KeepTokens == 5

Undefined == "undefined"

UserIds == 1..MaxUsers
NoUser == 0

Usernames == {"alice", "bob"}
\* e-mail addresses as typed by the client
EmailInputs == {"a@x.io", "A@x.io", "b@x.io"}
\* passwords as typed by the client; "weak" fails the password rules
GoodPasswords == {"Passw0rd", "Secr3tXy"}
PasswordInputs == GoodPasswords \cup {"weak", ""}
\* the people who register, each with a username and an e-mail address as typed
Clients == {<<"alice", "a@x.io">>, <<"alice", "A@x.io">>, <<"bob", "b@x.io">>}
\* the passwords they register with
RegisterPasswords == {"Passw0rd", "weak"}

\* the instants at which the clock is sampled
Times == (0..MaxSecond) \cup {JWT_EXPIRE, JWT_REFRESH_EXPIRE}

VARIABLES
  users,      \* the users collection: _id -> document
  nextId,     \* number of documents ever inserted in the users collection
  now,        \* the server clock, in seconds
  issued,     \* every token generateTokens has returned so far
  hist,       \* per user: the refresh tokens issued by its registration and
              \* by the successful logins that followed it with no other
              \* change of the user in between (<<>> once there was one)
  revoked,    \* the refresh tokens that had been issued to a user when that
              \* user changed the password
  last,       \* the last request and its response
  pend,       \* per server task: the request it is serving, between the
              \* handler's read of the user and its "await user.save()"
  roadmaps,   \* the roadmaps collection: _id -> document
  nextRm,     \* number of documents ever inserted in the roadmaps collection
  rlast,      \* the last roadmap request that was served
  llm,        \* the browser: the AI response being parsed and the roadmap
              \* parseRoadmapResponse returned for it
  ctx,        \* the browser: the state of the AuthProvider component
  storage,    \* the browser: localStorage, key -> value
  calls,      \* the browser: the calls of the auth context that wait for
              \* the server's response
  sent,       \* the browser: the last HTTP request it issued
  store,      \* the browser: the state of the roadmap store
  timers      \* the browser: the reply timers that have not fired yet

vars == <<users, nextId, now, issued, hist, revoked, last, pend,
          roadmaps, nextRm, rlast, llm, ctx, storage, calls, sent, store,
          timers>>

\* the variables of the credential store
authVars == <<users, nextId, now, issued, hist, revoked, last>>

\* the variables of the roadmap store
roadmapVars == <<roadmaps, nextRm, rlast>>

\* the variables of the browser
clientVars == <<llm, ctx, storage, calls, sent, store, timers>>

\* the variables of the server
serverVars == <<users, nextId, now, issued, hist, revoked, last, pend,
                roadmaps, nextRm, rlast>>

\* what the sequential credential store leaves alone
others == <<pend, roadmaps, nextRm, rlast, clientVars>>

(***************************************************************************)
(* String helpers.                                                         *)
(***************************************************************************)
\* String.prototype.toLowerCase on the e-mail inputs
ToLowerCase(s) == IF s = "A@x.io" THEN "a@x.io" ELSE s

\* express-validator normalizeEmail(): lower-cases the address
NormalizeEmail(s) == ToLowerCase(s)

(***************************************************************************)
(* Token service (backend/utils/jwt.js).  A token is the signed payload;   *)
(* jwt.sign is deterministic, so a token is identified by its payload and  *)
(* by the key that signed it.                                              *)
(***************************************************************************)
\* jwt.sign(payload, JWT_SECRET, {expiresIn, issuer, audience}) at time t
JwtSign(payload, ttl, t) ==
  [form |-> "jwt", sig |-> "JWT_SECRET",
   id |-> payload.id, username |-> payload.username,
   email |-> payload.email, role |-> payload.role,
   iat |-> t, exp |-> t + ttl,
   iss |-> "roadmap-generator", aud |-> "roadmap-generator-users"]

generateAccessToken(payload, t) == JwtSign(payload, JWT_EXPIRE, t)

generateRefreshToken(payload, t) == JwtSign(payload, JWT_REFRESH_EXPIRE, t)

\* generateTokens(user) for the user document u with _id uid
generateTokens(uid, u, t) ==
  LET payload == [id |-> uid, username |-> u.username,
                  email |-> u.email, role |-> u.role]
  IN [accessToken  |-> generateAccessToken(payload, t),
      refreshToken |-> generateRefreshToken(
                         [id |-> payload.id, username |-> Undefined,
                          email |-> Undefined, role |-> Undefined], t),
      expiresIn    |-> JWT_EXPIRE]

\* what is not a token at all
NullToken ==
  [form |-> "null", sig |-> "", id |-> NoUser, username |-> Undefined,
   email |-> Undefined, role |-> Undefined, iat |-> 0, exp |-> 0,
   iss |-> "", aud |-> ""]

\* a string that is not a JWT
MalformedToken == [NullToken EXCEPT !.form = "garbage"]

\* a well-formed JWT signed with another key
ForgedToken(uid) ==
  [form |-> "jwt", sig |-> "other-key", id |-> uid, username |-> Undefined,
   email |-> Undefined, role |-> Undefined, iat |-> 0,
   exp |-> JWT_REFRESH_EXPIRE * 4,
   iss |-> "roadmap-generator", aud |-> "roadmap-generator-users"]

\* the claims of a decoded token
Claims(tok) ==
  [id |-> tok.id, username |-> tok.username, email |-> tok.email,
   role |-> tok.role]

\* jwt.verify(token, JWT_SECRET, {issuer, audience}) at time t:
\* the error it throws, "" when it returns the payload
JwtVerifyError(tok, t) ==
  IF tok.form # "jwt" THEN "JsonWebTokenError"
  ELSE IF tok.sig # "JWT_SECRET" THEN "JsonWebTokenError"
  ELSE IF t >= tok.exp THEN "TokenExpiredError"
  ELSE IF tok.aud # "roadmap-generator-users" THEN "JsonWebTokenError"
  ELSE IF tok.iss # "roadmap-generator" THEN "JsonWebTokenError"
  ELSE ""

\* what JavaScript takes for true in a condition
Truthy(x) == x # Undefined /\ x # ""

\* verifyToken: [ok, name of the error thrown, decoded payload]
verifyToken(tok, t) ==
  IF JwtVerifyError(tok, t) = ""
  THEN [ok |-> TRUE, name |-> "", decoded |-> Claims(tok)]
  ELSE [ok |-> FALSE, name |-> "Error", decoded |-> Claims(NullToken)]

\* a verifyRefreshToken that takes any token that verifies
verifyRefreshToken_AnyToken(tok, t) == verifyToken(tok, t)

\* verifyRefreshToken: [ok, name of the error thrown, decoded payload]
verifyRefreshToken(tok, t) ==
  IF JwtVerifyError(tok, t) # ""
  THEN [ok |-> FALSE, name |-> "Error", decoded |-> Claims(NullToken)]
  ELSE IF Truthy(tok.username) \/ Truthy(tok.email)
  THEN [ok |-> FALSE, name |-> "Error", decoded |-> Claims(NullToken)]
  ELSE [ok |-> TRUE, name |-> "", decoded |-> Claims(tok)]

\* an Authorization header: absent, another scheme, or "Bearer <token>"
NoHeader == [scheme |-> "none", token |-> NullToken]
BasicHeader == [scheme |-> "Basic", token |-> NullToken]
Bearer(tok) == [scheme |-> "Bearer", token |-> tok]

extractTokenFromHeader(authHeader) ==
  IF authHeader.scheme # "Bearer" THEN NullToken ELSE authHeader.token


(***************************************************************************)
(* The User model (models/User.js).                                        *)
(***************************************************************************)
\* the pre-save hook stores a one-way hash of the password
Hash(pw) == <<"bcrypt", pw>>

\* user.comparePassword(candidate)
comparePassword(u, candidate) == u.password = Hash(candidate)

\* the slot of a document that is not in the collection
NoDoc ==
  [exists |-> FALSE, username |-> "", email |-> "", password |-> <<>>,
   role |-> "", refreshTokens |-> <<>>, lastLoginAt |-> -1]

\* new User({username, email, password}) with the schema's defaults
NewUser(username, email, password) ==
  [exists |-> TRUE, username |-> username, email |-> ToLowerCase(email),
   password |-> Hash(password), role |-> "user", refreshTokens |-> <<>>,
   lastLoginAt |-> -1]

\* User.findById(id): the _id found, NoUser when there is none
findById(usrs, id) ==
  IF id \in UserIds /\ usrs[id].exists THEN id ELSE NoUser

\* User.findByEmailOrUsername(identifier)
findByEmailOrUsername(usrs, identifier) ==
  LET hits == {i \in UserIds : /\ usrs[i].exists
                               /\ \/ usrs[i].email = ToLowerCase(identifier)
                                  \/ usrs[i].username = identifier}
  IN IF hits = {} THEN NoUser ELSE CHOOSE i \in hits : TRUE

\* the unique index a new document with this username and e-mail violates,
\* "" when it violates none
DuplicateKey(usrs, username, email) ==
  IF \E i \in UserIds : usrs[i].exists /\ usrs[i].username = username
  THEN "username"
  ELSE IF \E i \in UserIds : usrs[i].exists /\ usrs[i].email = ToLowerCase(email)
  THEN "email"
  ELSE ""

\* the unique indexes a new document with this username and e-mail
\* violates; error.keyPattern of the E11000 error names one of them
DuplicateKeys(usrs, username, email) ==
  {key \in {"username", "email"} :
     \E i \in UserIds :
       /\ usrs[i].exists
       /\ IF key = "username" THEN usrs[i].username = username
          ELSE usrs[i].email = ToLowerCase(email)}

\* one entry of user.refreshTokens
TokenEntry(tok, t) == [token |-> tok, createdAt |-> t]

\* Array.prototype.filter(tokenObj => tokenObj.token !== refreshToken)
RECURSIVE FilterOut(_, _)
FilterOut(list, tok) ==
  IF list = <<>> THEN <<>>
  ELSE IF Head(list).token # tok
       THEN <<Head(list)>> \o FilterOut(Tail(list), tok)
       ELSE FilterOut(Tail(list), tok)

\* Array.prototype.some(tokenObj => tokenObj.token === refreshToken)
SomeToken(list, tok) == \E i \in 1..Len(list) : list[i].token = tok

\* Array.prototype.slice(-n)
SliceLast(list, n) ==
  IF Len(list) <= n THEN list ELSE SubSeq(list, Len(list) - n + 1, Len(list))

(***************************************************************************)
(* Auth middleware (backend/middleware/auth.js).                           *)
(***************************************************************************)
\* an authenticate that trusts the id of a verified token without looking
\* the user up
authenticate_NoLookup(usrs, t, authHeader) ==
  LET token == extractTokenFromHeader(authHeader)
      v     == verifyToken(token, t)
  IN IF token = NullToken
     THEN [status |-> 401, code |-> "NO_TOKEN", user |-> NoUser]
     ELSE IF ~v.ok
     THEN [status |-> 401, code |-> "INVALID_TOKEN", user |-> NoUser]
     ELSE [status |-> 0, code |-> "", user |-> v.decoded.id]

\* authenticate: status 0 stands for next(), with req.user = user
authenticate(usrs, t, authHeader) ==
  LET token == extractTokenFromHeader(authHeader)
      v     == verifyToken(token, t)
      user  == findById(usrs, v.decoded.id)
  IN IF token = NullToken
     THEN [status |-> 401, code |-> "NO_TOKEN", user |-> NoUser]
     ELSE IF ~v.ok
     THEN IF v.name = "TokenExpiredError"
          THEN [status |-> 401, code |-> "TOKEN_EXPIRED", user |-> NoUser]
          ELSE IF v.name = "JsonWebTokenError"
          THEN [status |-> 401, code |-> "INVALID_TOKEN", user |-> NoUser]
          ELSE [status |-> 401, code |-> "AUTH_FAILED", user |-> NoUser]
     ELSE IF user = NoUser
     THEN [status |-> 401, code |-> "USER_NOT_FOUND", user |-> NoUser]
     ELSE [status |-> 0, code |-> "", user |-> user]

(***************************************************************************)
(* Requests a client can send.                                             *)
(***************************************************************************)
\* the tokens a client can present: those the server has handed out, and
\* tokens of its own making
Presentable ==
  issued \cup {MalformedToken} \cup {ForgedToken(i) : i \in UserIds}

Headers == {NoHeader, BasicHeader} \cup {Bearer(tok) : tok \in Presentable}

\* a response that changes nothing
Reject(usrs, status, code) ==
  [status |-> status, code |-> code, user |-> NoUser, users |-> usrs,
   minted |-> {}, refreshToken |-> NullToken, accessToken |-> NullToken,
   field |-> ""]

\* a response of a request that went through, leaving the collection as newUsers
Answer(newUsers, status, uid, tokens) ==
  [status |-> status, code |-> "", user |-> uid, users |-> newUsers,
   minted |-> UNION {{x.accessToken, x.refreshToken} : x \in tokens},
   refreshToken |-> IF tokens = {} THEN NullToken
                    ELSE (CHOOSE x \in tokens : TRUE).refreshToken,
   accessToken |-> IF tokens = {} THEN NullToken
                   ELSE (CHOOSE x \in tokens : TRUE).accessToken,
   field |-> ""]


(***************************************************************************)
(* Auth routes (backend/routes/auth.js).  Each handler is an operator from *)
(* the collection, the clock and the request to the response and the       *)
(* collection the handler leaves.                                          *)
(***************************************************************************)
\* registerValidation: the body passes the rules
registerValid(username, email, password) ==
  /\ username \in Usernames
  /\ email \in EmailInputs
  /\ password \in GoodPasswords

\* POST /api/auth/register; newId is the _id the insert assigns
register(usrs, t, newId, username, emailIn, password) ==
  LET email    == NormalizeEmail(emailIn)
      existing == findByEmailOrUsername(usrs, email)
      dup      == DuplicateKey(usrs, username, email)
      created  == NewUser(username, email, password)
      tokens   == generateTokens(newId, created, t)
      saved    == [created EXCEPT !.refreshTokens =
                     Append(@, TokenEntry(tokens.refreshToken, t))]
  IN IF ~registerValid(username, emailIn, password)
     THEN Reject(usrs, 400, "VALIDATION")
     ELSE IF existing # NoUser
     THEN [Reject(usrs, 409, "USER_EXISTS") EXCEPT !.field =
             IF usrs[existing].email = ToLowerCase(email)
             THEN "email" ELSE "username"]
     ELSE IF dup # ""
     THEN [Reject(usrs, 409, "DUPLICATE_FIELD") EXCEPT !.field = dup]
     ELSE Answer([usrs EXCEPT ![newId] = saved], 201, newId, {tokens})

\* a clean-up that is never done
TrimTokens_Missing(list) == list

\* login's clean-up of old refresh tokens (keep only the last 5)
TrimTokens(list) ==
  IF Len(list) > KeepTokens THEN SliceLast(list, KeepTokens) ELSE list

\* a login that tells an unknown identifier from a wrong password
login_Telling(usrs, t, identifier, password) ==
  LET uid    == findByEmailOrUsername(usrs, identifier)
      user   == usrs[uid]
      tokens == generateTokens(uid, user, t)
      pushed == Append(user.refreshTokens, TokenEntry(tokens.refreshToken, t))
      kept   == TrimTokens(pushed)
  IN IF identifier = "" \/ password = ""
     THEN Reject(usrs, 400, "VALIDATION")
     ELSE IF uid = NoUser
     THEN Reject(usrs, 404, "USER_NOT_FOUND")
     ELSE IF ~comparePassword(user, password)
     THEN Reject(usrs, 401, "INVALID_CREDENTIALS")
     ELSE Answer([usrs EXCEPT ![uid] =
                    [user EXCEPT !.lastLoginAt = t, !.refreshTokens = kept]],
                 200, uid, {tokens})

\* POST /api/auth/login
login(usrs, t, identifier, password) ==
  LET uid    == findByEmailOrUsername(usrs, identifier)
      user   == usrs[uid]
      tokens == generateTokens(uid, user, t)
      pushed == Append(user.refreshTokens, TokenEntry(tokens.refreshToken, t))
      kept   == TrimTokens(pushed)
  IN IF identifier = "" \/ password = ""
     THEN Reject(usrs, 400, "VALIDATION")
     ELSE IF uid = NoUser
     THEN Reject(usrs, 401, "INVALID_CREDENTIALS")
     ELSE IF ~comparePassword(user, password)
     THEN Reject(usrs, 401, "INVALID_CREDENTIALS")
     ELSE Answer([usrs EXCEPT ![uid] =
                    [user EXCEPT !.lastLoginAt = t, !.refreshTokens = kept]],
                 200, uid, {tokens})

\* a refresh that does not look the token up in the stored list
refresh_Trusting(usrs, t, refreshToken) ==
  LET v      == verifyRefreshToken(refreshToken, t)
      uid    == findById(usrs, v.decoded.id)
      user   == usrs[uid]
      tokens == generateTokens(uid, user, t)
      kept   == Append(FilterOut(user.refreshTokens, refreshToken),
                       TokenEntry(tokens.refreshToken, t))
  IN IF refreshToken = NullToken
     THEN Reject(usrs, 401, "NO_REFRESH_TOKEN")
     ELSE IF ~v.ok
     THEN Reject(usrs, 401, "REFRESH_ERROR")
     ELSE IF uid = NoUser
     THEN Reject(usrs, 401, "INVALID_REFRESH_TOKEN")
     ELSE Answer([usrs EXCEPT ![uid] = [user EXCEPT !.refreshTokens = kept]],
                 200, uid, {tokens})

\* POST /api/auth/refresh
refresh(usrs, t, refreshToken) ==
  LET v      == verifyRefreshToken(refreshToken, t)
      uid    == findById(usrs, v.decoded.id)
      user   == usrs[uid]
      tokens == generateTokens(uid, user, t)
      kept   == Append(FilterOut(user.refreshTokens, refreshToken),
                       TokenEntry(tokens.refreshToken, t))
  IN IF refreshToken = NullToken
     THEN Reject(usrs, 401, "NO_REFRESH_TOKEN")
     ELSE IF ~v.ok
     THEN Reject(usrs, 401, "REFRESH_ERROR")
     ELSE IF uid = NoUser
     THEN Reject(usrs, 401, "INVALID_REFRESH_TOKEN")
     ELSE IF ~SomeToken(user.refreshTokens, refreshToken)
     THEN Reject(usrs, 401, "INVALID_REFRESH_TOKEN")
     ELSE Answer([usrs EXCEPT ![uid] = [user EXCEPT !.refreshTokens = kept]],
                 200, uid, {tokens})

\* a logout that clears the list whatever the body says
logout_Everywhere(usrs, t, authHeader, refreshToken) ==
  LET auth == authenticate(usrs, t, authHeader)
      user == usrs[auth.user]
  IN IF auth.status # 0
     THEN Reject(usrs, auth.status, auth.code)
     ELSE Answer([usrs EXCEPT ![auth.user] =
                    [user EXCEPT !.refreshTokens = <<>>]],
                 200, auth.user, {})

\* POST /api/auth/logout
logout(usrs, t, authHeader, refreshToken) ==
  LET auth == authenticate(usrs, t, authHeader)
      user == usrs[auth.user]
      kept == IF refreshToken # NullToken
              THEN FilterOut(user.refreshTokens, refreshToken)
              ELSE <<>>
  IN IF auth.status # 0
     THEN Reject(usrs, auth.status, auth.code)
     ELSE Answer([usrs EXCEPT ![auth.user] =
                    [user EXCEPT !.refreshTokens = kept]],
                 200, auth.user, {})

\* POST /api/auth/logout-all
logoutAll(usrs, t, authHeader) ==
  LET auth == authenticate(usrs, t, authHeader)
      user == usrs[auth.user]
  IN IF auth.status # 0
     THEN Reject(usrs, auth.status, auth.code)
     ELSE Answer([usrs EXCEPT ![auth.user] =
                    [user EXCEPT !.refreshTokens = <<>>]],
                 200, auth.user, {})

\* GET /api/auth/me
me(usrs, t, authHeader) ==
  LET auth == authenticate(usrs, t, authHeader)
  IN IF auth.status # 0
     THEN Reject(usrs, auth.status, auth.code)
     ELSE Answer(usrs, 200, auth.user, {})

(***************************************************************************)
(* User routes (routes/user.js).                                           *)
(***************************************************************************)
\* POST /api/user/change-password
changePassword(usrs, t, authHeader, currentPassword, newPassword) ==
  LET auth == authenticate(usrs, t, authHeader)
      user == usrs[auth.user]
  IN IF auth.status # 0
     THEN Reject(usrs, auth.status, auth.code)
     ELSE IF currentPassword = "" \/ newPassword \notin GoodPasswords
     THEN Reject(usrs, 400, "VALIDATION")
     ELSE IF ~comparePassword(user, currentPassword)
     THEN Reject(usrs, 401, "INVALID_CURRENT_PASSWORD")
     ELSE Answer([usrs EXCEPT ![auth.user] =
                    [user EXCEPT !.password = Hash(newPassword),
                                 !.refreshTokens = <<>>]],
                 200, auth.user, {})

\* a DELETE /api/user/account that does not verify the password
deleteAccount_Unchecked(usrs, t, authHeader, password) ==
  LET auth == authenticate(usrs, t, authHeader)
  IN IF auth.status # 0
     THEN Reject(usrs, auth.status, auth.code)
     ELSE IF password = ""
     THEN Reject(usrs, 400, "VALIDATION")
     ELSE Answer([usrs EXCEPT ![auth.user] = NoDoc], 200, auth.user, {})

\* DELETE /api/user/account
deleteAccount(usrs, t, authHeader, password) ==
  LET auth == authenticate(usrs, t, authHeader)
      user == usrs[auth.user]
  IN IF auth.status # 0
     THEN Reject(usrs, auth.status, auth.code)
     ELSE IF password = ""
     THEN Reject(usrs, 400, "VALIDATION")
     ELSE IF ~comparePassword(user, password)
     THEN Reject(usrs, 401, "INVALID_PASSWORD")
     ELSE Answer([usrs EXCEPT ![auth.user] = NoDoc], 200, auth.user, {})


(***************************************************************************)
(* Number arithmetic of the Roadmap model.  completedSteps / steps.length   *)
(* and the product by 100 are IEEE-754 double operations, each rounded to  *)
(* 53 significant bits, nearest, ties to even; Math.round then takes the   *)
(* nearest integer, ties upwards.  A significand is kept in three limbs,   *)
(* top * 2^34 + mid * 2^17 + low, so that no intermediate value leaves     *)
(* the range of the integers used here.                                    *)
(***************************************************************************)
RECURSIVE Pow2(_)
Pow2(k) == IF k = 0 THEN 1 ELSE 2 * Pow2(k - 1)

\* the a with n <= c * 2^a < 2n, for 0 < c <= n: c/n = x * 2^-a, 1 <= x < 2
RECURSIVE BinaryExponent(_, _)
BinaryExponent(c, n) == IF c >= n THEN 0 ELSE 1 + BinaryExponent(2 * c, n)

\* limbs with the carries moved upwards
Carry(top, mid, low) ==
  LET m == mid + (low \div Pow2(17))
  IN [top |-> top + (m \div Pow2(17)), mid |-> m % Pow2(17),
      low |-> low % Pow2(17)]

\* the double completedSteps / steps.length, for 0 < c <= n, as the
\* significand sig (53 bits) with value sig * 2^-(52 + exp)
DoubleDivide(c, n) ==
  LET a   == BinaryExponent(c, n)
      r0  == c * Pow2(a) - n
      d1  == (r0 * Pow2(18)) \div n
      r1  == (r0 * Pow2(18)) % n
      d2  == (r1 * Pow2(17)) \div n
      r2  == (r1 * Pow2(17)) % n
      d3  == (r2 * Pow2(17)) \div n
      r3  == (r2 * Pow2(17)) % n
      up  == IF 2 * r3 > n \/ (2 * r3 = n /\ d3 % 2 = 1) THEN 1 ELSE 0
  IN [sig |-> Carry(Pow2(18) + d1, d2, d3 + up), exp |-> a]

\* the double q * 100: the significand with value sig * 2^-(52 + exp)
DoubleTimes100(q) ==
  LET p    == Carry(100 * q.sig.top, 100 * q.sig.mid, 100 * q.sig.low)
      k    == IF p.top < Pow2(25) THEN 6 ELSE 7
      kept == p.low \div Pow2(k)
      rest == p.low % Pow2(k)
      up   == IF rest > Pow2(k - 1) \/ (rest = Pow2(k - 1) /\ kept % 2 = 1)
              THEN 1 ELSE 0
  IN [sig |-> Carry(p.top, p.mid, (kept + up) * Pow2(k)), exp |-> q.exp]

\* Math.round(x) for a double x >= 0: floor(x + 1/2)
MathRound(x) ==
  (x.sig.top + Pow2(x.exp + 17)) \div Pow2(x.exp + 18)

\* Math.round((completedSteps / this.steps.length) * 100)
Percentage(completedSteps, length) ==
  IF completedSteps = 0 THEN 0
  ELSE MathRound(DoubleTimes100(DoubleDivide(completedSteps, length)))

(***************************************************************************)
(* The Roadmap model (models/Roadmap.js).                                  *)
(***************************************************************************)
RoadmapIds == 1..MaxRoadmaps

\* a Date that is not set (null or absent)
NoDate == -1

\* the schema's defaults of the progress block
NoProgress ==
  [completedSteps |-> 0, totalSteps |-> 0, percentage |-> 0,
   lastUpdated |-> NoDate]

\* the slot of a document that is not in the collection
NoRoadmap ==
  [exists |-> FALSE, createdBy |-> NoUser, title |-> "", topic |-> "",
   difficulty |-> "", tags |-> <<>>, steps |-> <<>>,
   likes |-> <<>>, sharedWith |-> <<>>, isPublic |-> FALSE,
   progress |-> NoProgress]

\* the JSON literals true and false of a request body
JsonTrue == "true"
JsonFalse == "false"

\* the validator of the schema's steps path: steps && steps.length > 0
stepsValidator(steps) == Len(steps) > 0

\* `step-${index + 1}`, with index counted from 1 here
StepName(index) == "step-" \o ToString(index)

\* this.steps.filter(step => step.isCompleted).length
CountCompleted(steps) ==
  Cardinality({i \in 1..Len(steps) : steps[i].isCompleted})

\* a pre-save hook that leaves the progress block as the document has it
presave_Stale(doc, t) == doc

\* roadmapSchema.pre('save'): the progress block is recomputed
presave(doc, t) ==
  LET completedSteps == CountCompleted(doc.steps)
  IN [doc EXCEPT !.progress =
        [completedSteps |-> completedSteps,
         totalSteps     |-> Len(doc.steps),
         percentage     |-> IF Len(doc.steps) > 0
                            THEN Percentage(completedSteps, Len(doc.steps))
                            ELSE 0,
         lastUpdated    |-> t]]

\* this.steps.find(s => s.id === stepId): the index of the first step with
\* that id, 0 when there is none
FindStep(steps, stepId) ==
  LET hits == {i \in 1..Len(steps) : steps[i].id = stepId}
  IN IF hits = {} THEN 0 ELSE CHOOSE i \in hits : \A j \in hits : i <= j

\* roadmap.updateStepCompletion(stepId, isCompleted), the step being there
updateStepCompletion(doc, stepId, isCompleted, t) ==
  LET k == FindStep(doc.steps, stepId)
  IN presave([doc EXCEPT !.steps[k].isCompleted = isCompleted,
                          !.steps[k].completedAt =
                             IF isCompleted THEN t ELSE NoDate], t)

\* this.likes.includes(userId)
Includes(list, x) == \E i \in 1..Len(list) : list[i] = x

\* roadmap.addLike(userId)
addLike(doc, userId, t) ==
  IF ~Includes(doc.likes, userId)
  THEN presave([doc EXCEPT !.likes = Append(@, userId)], t)
  ELSE doc

\* this.likes.filter(id => !id.equals(userId))
RECURSIVE Without(_, _)
Without(list, x) ==
  IF list = <<>> THEN <<>>
  ELSE IF Head(list) # x THEN <<Head(list)>> \o Without(Tail(list), x)
  ELSE Without(Tail(list), x)

\* a removeLike that saves the likes as they are
removeLike_Keeping(doc, userId, t) == presave(doc, t)

\* roadmap.removeLike(userId)
removeLike(doc, userId, t) ==
  presave([doc EXCEPT !.likes = Without(@, userId)], t)

(***************************************************************************)
(* The roadmap routes (routes/roadmap.js) and the ownership gate.  A       *)
(* handler is an operator from the collections, the clock and the request  *)
(* to the response and the roadmaps collection it leaves behind.           *)
(***************************************************************************)
\* a malformed :id (Roadmap.findById throws a CastError)
BadId == -1

\* one step of a request body
StepInputs ==
  [id : {Undefined}, title : {"Learn"},
   isCompleted : {Undefined, JsonTrue, JsonFalse}]
    \cup {[id |-> Undefined, title |-> "", isCompleted |-> Undefined]}

\* the steps array of a request body
StepLists == UNION {[1..k -> StepInputs] : k \in 0..MaxSteps}

\* a progress block sent by a client
ClientProgress ==
  [completedSteps |-> 1, totalSteps |-> 1, percentage |-> 100,
   lastUpdated |-> NoDate]

\* the difficulty enum of the schema and of the validation rules
Difficulties == {"beginner", "intermediate", "advanced"}

\* the fields of a request body next to its steps; progress = NoProgress
\* stands for a body without a progress field, tags = <<>> also for a body
\* without tags
BodyHeads ==
  {[title |-> "Go", topic |-> "go", difficulty |-> Undefined, tags |-> <<>>,
    isPublic |-> Undefined, progress |-> NoProgress],
   [title |-> "Go", topic |-> "go", difficulty |-> Undefined, tags |-> <<>>,
    isPublic |-> JsonTrue, progress |-> ClientProgress],
   [title |-> "", topic |-> "go", difficulty |-> Undefined, tags |-> <<>>,
    isPublic |-> Undefined, progress |-> NoProgress]}

\* the bodies of POST /roadmaps and PUT /roadmaps/:id
Bodies ==
  {[title |-> b.title, topic |-> b.topic, difficulty |-> b.difficulty,
    tags |-> b.tags, steps |-> st,
    isPublic |-> b.isPublic, progress |-> b.progress] :
     b \in BodyHeads, st \in StepLists}

RoadmapReject(rms, status, code) ==
  [status |-> status, code |-> code, roadmaps |-> rms, user |-> NoUser,
   id |-> 0, roadmap |-> NoRoadmap, liked |-> FALSE, likeCount |-> 0]

RoadmapAnswer(rms, status, uid, id) ==
  [status |-> status, code |-> "", roadmaps |-> rms, user |-> uid,
   id |-> id,
   roadmap |-> IF id \in RoadmapIds THEN rms[id] ELSE NoRoadmap,
   liked |-> FALSE, likeCount |-> 0]

\* an optionalAuth that reads the token without verifying it
optionalAuth_Unverified(usrs, t, authHeader) ==
  findById(usrs, extractTokenFromHeader(authHeader).id)

\* optionalAuth: req.user, NoUser when the request goes on without one
optionalAuth(usrs, t, authHeader) ==
  LET token   == extractTokenFromHeader(authHeader)
      decoded == verifyToken(token, t)
  IN IF token = NullToken THEN NoUser
     ELSE IF ~decoded.ok THEN NoUser
     ELSE findById(usrs, decoded.decoded.id)

\* fetchRoadmap: [status (0 = next), code]
fetchRoadmap(rms, id) ==
  IF id = BadId THEN [status |-> 400, code |-> "INVALID_ID"]
  ELSE IF id \notin RoadmapIds \/ ~rms[id].exists
  THEN [status |-> 404, code |-> "ROADMAP_NOT_FOUND"]
  ELSE [status |-> 0, code |-> ""]

\* an ownership gate that lets every authenticated user through
checkOwnership_AnyUser(usrs, uid, resource) ==
  IF uid = NoUser THEN [status |-> 401, code |-> "AUTH_REQUIRED"]
  ELSE [status |-> 0, code |-> ""]

\* checkOwnership(): [status (0 = next), code]; uid is req.user and
\* resource is req.resource
checkOwnership(usrs, uid, resource) ==
  IF uid = NoUser THEN [status |-> 401, code |-> "AUTH_REQUIRED"]
  ELSE IF usrs[uid].role = "admin" THEN [status |-> 0, code |-> ""]
  ELSE IF ~resource.exists \/ resource.createdBy = NoUser
  THEN [status |-> 404, code |-> "RESOURCE_NOT_FOUND"]
  ELSE IF resource.createdBy # uid
  THEN [status |-> 403, code |-> "OWNERSHIP_REQUIRED"]
  ELSE [status |-> 0, code |-> ""]

\* a createRoadmapValidation without the rule isArray({ min: 1 }) on steps
createRoadmapValid_AnyLength(body) ==
  /\ body.title # ""
  /\ body.topic # ""
  /\ body.difficulty \in Difficulties \cup {Undefined}
  /\ \A i \in 1..Len(body.steps) : body.steps[i].title # ""

\* createRoadmapValidation
createRoadmapValid(body) ==
  /\ body.title # ""
  /\ body.topic # ""
  /\ body.difficulty \in Difficulties \cup {Undefined}
  /\ Len(body.steps) >= 1
  /\ \A i \in 1..Len(body.steps) : body.steps[i].title # ""

\* the id of a processed step: step.id || `step-${index + 1}`
StepId(step, index) ==
  IF Truthy(step.id) THEN step.id ELSE StepName(index)

\* processedSteps of POST /roadmaps
CreateSteps(steps) ==
  [i \in 1..Len(steps) |->
     [id |-> StepId(steps[i], i), title |-> steps[i].title,
      isCompleted |-> FALSE, completedAt |-> NoDate, order |-> i]]

\* processedSteps of PUT /roadmaps/:id
UpdateSteps(steps) ==
  [i \in 1..Len(steps) |->
     [id |-> StepId(steps[i], i), title |-> steps[i].title,
      isCompleted |-> (steps[i].isCompleted = JsonTrue),
      completedAt |-> NoDate, order |-> i]]

\* POST /api/roadmaps
createRoadmap(rms, usrs, t, authHeader, newId, body) ==
  LET auth    == authenticate(usrs, t, authHeader)
      roadmap == [exists |-> TRUE, createdBy |-> auth.user,
                  title |-> body.title, topic |-> body.topic,
                  difficulty |-> IF Truthy(body.difficulty)
                                 THEN body.difficulty ELSE "intermediate",
                  tags |-> body.tags,
                  steps |-> CreateSteps(body.steps),
                  likes |-> <<>>, sharedWith |-> <<>>,
                  isPublic |-> (body.isPublic = JsonTrue),
                  progress |-> NoProgress]
  IN IF auth.status # 0 THEN RoadmapReject(rms, auth.status, auth.code)
     ELSE IF ~createRoadmapValid(body)
     THEN RoadmapReject(rms, 400, "VALIDATION")
     ELSE IF ~stepsValidator(roadmap.steps)
     THEN RoadmapReject(rms, 500, "CREATE_ROADMAP_ERROR")
     ELSE RoadmapAnswer([rms EXCEPT ![newId] = presave(roadmap, t)],
                        201, auth.user, newId)

\* the ownership checkOwnership decides on for :id, after authenticate and
\* fetchRoadmap
OwnershipGate(rms, usrs, t, authHeader, id) ==
  LET auth    == authenticate(usrs, t, authHeader)
      fetched == fetchRoadmap(rms, id)
  IN IF auth.status # 0 THEN [status |-> auth.status, code |-> auth.code]
     ELSE IF fetched.status # 0 THEN fetched
     ELSE checkOwnership(usrs, auth.user, rms[id])

\* PUT /api/roadmaps/:id
updateRoadmap(rms, usrs, t, authHeader, id, body) ==
  LET auth == authenticate(usrs, t, authHeader)
      gate == OwnershipGate(rms, usrs, t, authHeader, id)
      roadmap == [rms[id] EXCEPT
                    !.title = body.title,
                    !.topic = body.topic,
                    !.difficulty = IF Truthy(body.difficulty)
                                   THEN body.difficulty ELSE @,
                    !.tags = body.tags,
                    !.steps = UpdateSteps(body.steps),
                    !.isPublic = IF body.isPublic # Undefined
                                 THEN body.isPublic = JsonTrue ELSE @]
  IN IF gate.status # 0 THEN RoadmapReject(rms, gate.status, gate.code)
     ELSE IF ~createRoadmapValid(body)
     THEN RoadmapReject(rms, 400, "VALIDATION")
     ELSE IF ~stepsValidator(roadmap.steps)
     THEN RoadmapReject(rms, 500, "UPDATE_ROADMAP_ERROR")
     ELSE RoadmapAnswer([rms EXCEPT ![id] = presave(roadmap, t)],
                        200, auth.user, id)

\* DELETE /api/roadmaps/:id
deleteRoadmap(rms, usrs, t, authHeader, id) ==
  LET auth == authenticate(usrs, t, authHeader)
      gate == OwnershipGate(rms, usrs, t, authHeader, id)
  IN IF gate.status # 0 THEN RoadmapReject(rms, gate.status, gate.code)
     ELSE [RoadmapAnswer([rms EXCEPT ![id] = NoRoadmap], 200, auth.user, id)
             EXCEPT !.roadmap = NoRoadmap]

\* POST /api/roadmaps/:id/steps/:stepId/complete
completeStep(rms, usrs, t, authHeader, id, stepId, isCompleted) ==
  LET auth == authenticate(usrs, t, authHeader)
      gate == OwnershipGate(rms, usrs, t, authHeader, id)
  IN IF gate.status # 0 THEN RoadmapReject(rms, gate.status, gate.code)
     ELSE IF isCompleted \notin {JsonTrue, JsonFalse}
     THEN RoadmapReject(rms, 400, "VALIDATION")
     ELSE IF FindStep(rms[id].steps, stepId) = 0
     THEN RoadmapReject(rms, 404, "STEP_NOT_FOUND")
     ELSE RoadmapAnswer(
            [rms EXCEPT ![id] = updateStepCompletion(@, stepId,
                                  isCompleted = JsonTrue, t)],
            200, auth.user, id)

\* POST /api/roadmaps/:id/like
toggleLike(rms, usrs, t, authHeader, id) ==
  LET auth    == authenticate(usrs, t, authHeader)
      fetched == fetchRoadmap(rms, id)
      isLiked == Includes(rms[id].likes, auth.user)
      roadmap == IF isLiked THEN removeLike(rms[id], auth.user, t)
                 ELSE addLike(rms[id], auth.user, t)
  IN IF auth.status # 0 THEN RoadmapReject(rms, auth.status, auth.code)
     ELSE IF fetched.status # 0
     THEN RoadmapReject(rms, fetched.status, fetched.code)
     ELSE [RoadmapAnswer([rms EXCEPT ![id] = roadmap], 200, auth.user, id)
             EXCEPT !.liked = ~isLiked, !.likeCount = Len(roadmap.likes)]

\* GET /api/roadmaps/:id
getRoadmap(rms, usrs, t, authHeader, id) ==
  LET user    == optionalAuth(usrs, t, authHeader)
      fetched == fetchRoadmap(rms, id)
      isOwner == user # NoUser /\ rms[id].createdBy = user
      isSharedWith == user # NoUser /\ Includes(rms[id].sharedWith, user)
  IN IF fetched.status # 0
     THEN RoadmapReject(rms, fetched.status, fetched.code)
     ELSE IF ~isOwner /\ ~rms[id].isPublic /\ ~isSharedWith
     THEN RoadmapReject(rms, 403, "ACCESS_DENIED")
     ELSE RoadmapAnswer(rms, 200, user, id)

(***************************************************************************)
(* The listing routes.  A query string is a record of its parameters.      *)
(***************************************************************************)
\* a number a query string does not give
NoInt == -1

\* the page size when the query gives none: parseInt(req.query.limit) || 20
DefaultLimit == 20

\* the largest limit the validation rules accept
LimitCap == 50

\* the words of the titles, topics and search patterns, in lower case
IgnoreCase(s) ==
  IF s = "Go" THEN "go" ELSE IF s = "Rust" THEN "rust" ELSE s

\* { $regex: search, $options: 'i' } on a field: the patterns and the
\* texts here are single words, so that a text holds a pattern when the two
\* are equal but for case
RegexTest(search, text) == IgnoreCase(text) = IgnoreCase(search)

\* tags.split(',')
SplitComma(tags) ==
  IF tags = "web,ai" THEN <<"web", "ai">> ELSE <<tags>>

\* { tags: { $in: tagArray } }
TagsIn(docTags, tagArray) ==
  \E i \in 1..Len(docTags), j \in 1..Len(tagArray) : docTags[i] = tagArray[j]

\* the query strings of the listing routes
Queries ==
  [page : {NoInt, 0, 2}, limit : {NoInt, 1, LimitCap + 1},
   search : {Undefined, "GO"}, difficulty : {Undefined, "advanced"},
   tags : {Undefined, "web,ai"}, public : {Undefined, JsonTrue, JsonFalse}]

\* the rules of the query of GET /roadmaps and GET /roadmaps/public
listValid(query) ==
  /\ query.page = NoInt \/ query.page >= 1
  /\ query.limit = NoInt \/ (query.limit >= 1 /\ query.limit <= LimitCap)
  /\ query.difficulty \in Difficulties \cup {Undefined}
  /\ query.public \in {Undefined, JsonTrue, JsonFalse, "1", "0"}

\* the documents a filter selects, newest first (sort({ createdAt: -1 }); a
\* later _id is a later createdAt), as a list of _ids
RECURSIVE NewestFirst(_)
NewestFirst(ids) ==
  IF ids = {} THEN <<>>
  ELSE LET newest == CHOOSE i \in ids : \A j \in ids : j <= i
       IN <<newest>> \o NewestFirst(ids \ {newest})

\* .limit(limit).skip(skip) on a sorted result
Page(list, skip, limit) ==
  IF skip >= Len(list) THEN <<>>
  ELSE SubSeq(list, skip + 1,
              IF skip + limit < Len(list) THEN skip + limit ELSE Len(list))

\* Math.ceil(total / limit)
Ceil(total, limit) == (total + limit - 1) \div limit

ListReject(status, code) ==
  [status |-> status, code |-> code, roadmaps |-> <<>>, total |-> 0,
   page |-> 0, limit |-> 0, pages |-> 0]

ListAnswer(found, counted, page, limit) ==
  [status |-> 200, code |-> "",
   roadmaps |-> Page(NewestFirst(found), (page - 1) * limit, limit),
   total |-> Cardinality(counted), page |-> page, limit |-> limit,
   pages |-> Ceil(Cardinality(counted), limit)]

\* the filters of the query that GET /roadmaps adds to its base filter
Filters(doc, search, difficulty, tags) ==
  /\ Truthy(search) =>
       \/ RegexTest(search, doc.title)
       \/ RegexTest(search, doc.topic)
  /\ Truthy(difficulty) => doc.difficulty = difficulty
  /\ Truthy(tags) => TagsIn(doc.tags, SplitComma(tags))

\* a GET /roadmaps whose query has no base filter
listRoadmaps_NoBase(rms, usrs, t, authHeader, query) ==
  LET auth  == authenticate(usrs, t, authHeader)
      page  == IF query.page = NoInt THEN 1 ELSE query.page
      limit == IF query.limit = NoInt THEN DefaultLimit ELSE query.limit
      found == {id \in RoadmapIds :
                  /\ rms[id].exists
                  /\ Filters(rms[id], query.search, query.difficulty,
                             query.tags)}
  IN IF auth.status # 0 THEN ListReject(auth.status, auth.code)
     ELSE IF ~listValid(query) THEN ListReject(400, "VALIDATION")
     ELSE ListAnswer(found, found, page, limit)

\* GET /api/roadmaps
listRoadmaps(rms, usrs, t, authHeader, query) ==
  LET auth  == authenticate(usrs, t, authHeader)
      page  == IF query.page = NoInt THEN 1 ELSE query.page
      limit == IF query.limit = NoInt THEN DefaultLimit ELSE query.limit
      found == {id \in RoadmapIds :
                  /\ rms[id].exists
                  /\ IF query.public = JsonTrue
                     THEN rms[id].isPublic
                     ELSE rms[id].createdBy = auth.user
                  /\ Filters(rms[id], query.search, query.difficulty,
                             query.tags)}
  IN IF auth.status # 0 THEN ListReject(auth.status, auth.code)
     ELSE IF ~listValid(query) THEN ListReject(400, "VALIDATION")
     ELSE ListAnswer(found, found, page, limit)

\* Roadmap.findPublic(options): the options carry search, which findPublic
\* does not read, and no topic
findPublic(rms, difficulty, tagArray) ==
  {id \in RoadmapIds :
     /\ rms[id].exists
     /\ rms[id].isPublic
     /\ Truthy(difficulty) => rms[id].difficulty = difficulty
     /\ Len(tagArray) > 0 => TagsIn(rms[id].tags, tagArray)}

\* GET /api/roadmaps/public
listPublic(rms, usrs, t, authHeader, query) ==
  LET user    == optionalAuth(usrs, t, authHeader)
      page    == IF query.page = NoInt THEN 1 ELSE query.page
      limit   == IF query.limit = NoInt THEN DefaultLimit ELSE query.limit
      found   == findPublic(rms, query.difficulty,
                            IF Truthy(query.tags)
                            THEN SplitComma(query.tags) ELSE <<>>)
      counted == {id \in RoadmapIds :
                    /\ rms[id].exists
                    /\ rms[id].isPublic
                    /\ Filters(rms[id], query.search, query.difficulty,
                               query.tags)}
  IN IF ~listValid([query EXCEPT !.public = Undefined])
     THEN ListReject(400, "VALIDATION")
     ELSE ListAnswer(found, counted, page, limit)


(***************************************************************************)
(* The state machine of the credential store.  A step is a request that    *)
(* is served, or the passing of time; a request that is rejected, or that  *)
(* only reads (GET), leaves every variable as it is.                       *)
(***************************************************************************)
\* the record of the request served last: the operation, the user it was
\* served for, the refresh token of the answer and the field a 409 names
Last(op, r, body) ==
  [op |-> op, user |-> r.user, refreshToken |-> r.refreshToken,
   field |-> r.field]

NoRequest(op) == Last(op, Reject(users, 0, ""), NullToken)

\* the refresh tokens issued so far to user uid
IssuedRefresh(uid) ==
  {tok \in issued : tok.id = uid /\ tok.username = Undefined}

\* the tokens of the entries of a stored list
TokensOf(list) == [i \in 1..Len(list) |-> list[i].token]

\* hist after a request: a registration starts it, a successful login
\* extends it, any other change of the user ends it
HistAfter(op, r) ==
  [i \in UserIds |->
     IF i # r.user THEN hist[i]
     ELSE IF op = "register" THEN <<r.refreshToken>>
     ELSE IF op = "login" /\ hist[i] # <<>> /\ Len(hist[i]) < MaxHist
     THEN Append(hist[i], r.refreshToken)
     ELSE <<>>]

\* the server tasks that can serve requests at the same time
Procs == 1..MaxProcs

(***************************************************************************)
(* The AI roadmap service of the browser (src/services/llmApiService.ts).  *)
(* An array of the response is [kind |-> "array", items |-> <<...>>]; a    *)
(* value that is missing or is not an array has another kind.              *)
(***************************************************************************)
\* `${prefix}${index}`
Template(prefix, index) == prefix \o ToString(index)

\* value || fallback
OrElse(value, fallback) == IF Truthy(value) THEN value ELSE fallback

\* an element of the response's nodes array: an object with or without an
\* id, a primitive value (the same one throughout), or null
NodeKinds == {"object", "primitive", "null"}

\* the ids the response gives its nodes; "node-1" is also the id that
\* parseRoadmapResponse gives to a second node without id
NodeIdInputs == {Undefined, "a", "node-1"}

NodeInputs ==
  {[kind |-> "object", id |-> id] : id \in NodeIdInputs}
    \cup {[kind |-> "primitive", id |-> Undefined],
          [kind |-> "null", id |-> Undefined]}

\* the endpoints the response gives its edges; no node is called "x"
EndpointInputs == {Undefined, "a", "node-1", "x"}

EdgeInputs ==
  {[id |-> Undefined, source |-> source, target |-> target,
    type |-> Undefined] : source \in EndpointInputs, target \in EndpointInputs}

\* the sequences over a set of at most n elements
SeqUpTo(S, n) == UNION {[1..k -> S] : k \in 0..n}

\* what JSON.parse makes of the cleaned response
Responses ==
  {[nodes |-> nodes, edges |-> edges] :
     nodes \in {[kind |-> "array", items |-> items] :
                  items \in SeqUpTo(NodeInputs, MaxNodes)}
               \cup {[kind |-> "absent", items |-> <<>>]},
     edges \in {[kind |-> "array", items |-> items] :
                  items \in SeqUpTo(EdgeInputs, MaxEdges)}
               \cup {[kind |-> "absent", items |-> <<>>],
                     [kind |-> "object", items |-> <<>>]}}

\* nodes.indexOf(node), from 0: the objects JSON.parse makes are distinct
\* from each other, equal primitives are one value
IndexOf(nodes, i) ==
  IF nodes[i].kind = "primitive"
  THEN (CHOOSE j \in 1..i :
          /\ nodes[j].kind = "primitive"
          /\ \A k \in 1..(j - 1) : nodes[k].kind # "primitive") - 1
  ELSE i - 1

\* a generateSequentialEdges that closes the chain into a ring
generateSequentialEdges_Ring(nodes) ==
  [i \in 1..Len(nodes) |->
     [id     |-> Template("edge-", i - 1),
      source |-> OrElse(nodes[i].id, Template("node-", i - 1)),
      target |-> IF i < Len(nodes)
                 THEN OrElse(nodes[i + 1].id, Template("node-", i))
                 ELSE OrElse(nodes[1].id, Template("node-", 0)),
      type   |-> "smoothstep"]]

\* generateSequentialEdges(nodes)
generateSequentialEdges(nodes) ==
  [i \in 1..(Len(nodes) - 1) |->
     [id     |-> Template("edge-", i - 1),
      source |-> OrElse(nodes[i].id, Template("node-", i - 1)),
      target |-> OrElse(nodes[i + 1].id, Template("node-", i)),
      type   |-> "smoothstep"]]

\* the edge processEdges pushes for the edge of the response at an index
ProcessedEdge(edge, index) ==
  [id     |-> OrElse(edge.id, Template("edge-", index)),
   source |-> edge.source,
   target |-> edge.target,
   type   |-> OrElse(edge.type, "smoothstep")]

\* the test of processEdges on an edge of the response
ValidEdge(edge, nodeIds) ==
  /\ Truthy(edge.source)
  /\ Truthy(edge.target)
  /\ Includes(nodeIds, edge.source)
  /\ Includes(nodeIds, edge.target)
  /\ edge.source # edge.target

\* processEdges(edges, nodes)
processEdges(edges, nodes) ==
  IF edges.kind # "array"
  THEN generateSequentialEdges(nodes)
  ELSE LET nodeIds == [i \in 1..Len(nodes) |->
                         OrElse(nodes[i].id,
                                Template("node-", IndexOf(nodes, i)))]
           all == [i \in 1..Len(edges.items) |->
                     ProcessedEdge(edges.items[i], i - 1)]
           validEdges == SelectSeq(all, LAMBDA edge : ValidEdge(edge, nodeIds))
       IN IF Len(validEdges) > 0
          THEN validEdges
          ELSE generateSequentialEdges(nodes)

\* what parseRoadmapResponse has done: nothing yet, returned, or thrown
NoRoadmapData == [state |-> "none", nodes |-> <<>>, edges |-> <<>>]
ParseFailure == [state |-> "thrown", nodes |-> <<>>, edges |-> <<>>]

\* parseRoadmapResponse(response, promptData): reading a property of null
\* throws, and the catch block throws in its turn
parseRoadmapResponse(response) ==
  IF response.nodes.kind # "array"
  THEN ParseFailure
  ELSE IF \E i \in 1..Len(response.nodes.items) :
            response.nodes.items[i].kind = "null"
  THEN ParseFailure
  ELSE [state |-> "returned",
        nodes |-> [i \in 1..Len(response.nodes.items) |->
                     [id     |-> OrElse(response.nodes.items[i].id,
                                        Template("node-", i - 1)),
                      type   |-> "topic",
                      status |-> "pending"]],
        edges |-> processEdges(response.edges, response.nodes.items)]

\* no response to parse
NoResponse ==
  [nodes |-> [kind |-> "absent", items |-> <<>>],
   edges |-> [kind |-> "absent", items |-> <<>>]]

(***************************************************************************)
(* The browser before the application has started.                         *)
(***************************************************************************)
(***************************************************************************)
(* The auth context of the browser (src/contexts/AuthContext.tsx) and the  *)
(* Dashboard component (src/components/Dashboard.tsx).                     *)
(***************************************************************************)
\* the JavaScript value null
Null == [kind |-> "null"]

\* a User object; updateUser changes its firstName
UserObject(username, firstName) ==
  [kind |-> "user", username |-> username, firstName |-> firstName]

\* the AuthTokens object of the k-th pair the server hands out
TokenObject(k) ==
  [kind         |-> "tokens",
   accessToken  |-> Template("access-", k),
   refreshToken |-> Template("refresh-", k),
   expiresIn    |-> "7d"]

\* JSON.stringify of an object: a string, which is no object
JsonStringify(value) == [kind |-> "json", text |-> value]

\* JSON.parse of a string JSON.stringify made
JsonParse(string) == string.text

\* the keys of localStorage the application reads or writes
StorageKeys == {"auth_user", "auth_tokens", "token"}

\* localStorage with no key set: getItem returns null
EmptyStorage == [key \in StorageKeys |-> Null]

\* useState initial values of AuthProvider; mounted is set once the effect
\* of line 63 has run
NoContext ==
  [user |-> Null, tokens |-> Null, isLoading |-> TRUE, mounted |-> FALSE]

\* const isAuthenticated = !!user && !!tokens
isAuthenticated(c) == c.user # Null /\ c.tokens # Null

\* tokens?.accessToken and tokens?.refreshToken
accessTokenOf(tokens) ==
  IF tokens = Null THEN Undefined ELSE tokens.accessToken

refreshTokenOf(tokens) ==
  IF tokens = Null THEN Undefined ELSE tokens.refreshToken

\* an auth context and a localStorage
Browser(c, st) == [ctx |-> c, storage |-> st]

\* saveAuthData(user, tokens)
saveAuthData(c, st, user, tokens) ==
  Browser([c EXCEPT !.user = user, !.tokens = tokens],
          [st EXCEPT !["auth_user"] = JsonStringify(user),
                     !["auth_tokens"] = JsonStringify(tokens)])

\* clearAuthData()
clearAuthData(c, st) ==
  Browser([c EXCEPT !.user = Null, !.tokens = Null],
          [st EXCEPT !["auth_user"] = Null, !["auth_tokens"] = Null])

\* loadAuthData(), the effect AuthProvider runs when it mounts
loadAuthData(c, st) ==
  LET storedTokens == st["auth_tokens"]
      storedUser   == st["auth_user"]
      loaded ==
        IF storedTokens # Null /\ storedUser # Null
        THEN IF storedTokens.kind = "json" /\ storedUser.kind = "json"
             THEN Browser([c EXCEPT !.tokens = JsonParse(storedTokens),
                                    !.user = JsonParse(storedUser)], st)
             ELSE clearAuthData(c, st)
        ELSE Browser(c, st)
  IN Browser([loaded.ctx EXCEPT !.isLoading = FALSE, !.mounted = TRUE],
             loaded.storage)

\* no HTTP request issued yet
NoCall == [by |-> "none", endpoint |-> "", authorization |-> Undefined]

\* the request apiRequest issues: the Authorization header is added when
\* tokens?.accessToken is set
apiRequest(c, by, endpoint) ==
  [by            |-> by,
   endpoint      |-> endpoint,
   authorization |-> IF Truthy(accessTokenOf(c.tokens))
                     THEN "Bearer " \o accessTokenOf(c.tokens)
                     ELSE Undefined]

\* `${token}` for what localStorage.getItem returned
Interpolate(value) == IF value = Null THEN "null" ELSE value.text

\* the request fetchRoadmaps and deleteRoadmap of the Dashboard issue
dashboardRequest(st, by, endpoint) ==
  [by            |-> by,
   endpoint      |-> endpoint,
   authorization |-> "Bearer " \o Interpolate(st["token"])]

\* updateUser(userData)
updateUser(c, st, firstName) ==
  IF c.user # Null
  THEN Browser([c EXCEPT !.user = [c.user EXCEPT !.firstName = firstName]],
               [st EXCEPT !["auth_user"] =
                  JsonStringify([c.user EXCEPT !.firstName = firstName])])
  ELSE Browser(c, st)

\* the users the server answers a login or a registration with
ServerUsers == {UserObject(username, Undefined) : username \in Usernames}

\* the slots of the calls that wait for the server
CallSlots == 1..MaxCalls

(***************************************************************************)
(* The roadmap store of the browser (src/store/roadmapStore.ts): the       *)
(* roadmap on screen, the chat sessions and the chat that is open.         *)
(***************************************************************************)
\* the nodes of the roadmap on screen, the statuses a node can be given and
\* what the user types: the n-th message typed is "q" followed by n
ChatNodes == {"A", "B"}

NodeStatuses == {"pending", "done"}

Typed(n) == Template("q", n)

\* a node of the roadmap, as openChat receives it
RoadmapNode(id, status) == [id |-> id, status |-> status]

\* the roadmap setCurrentRoadmap puts on screen: every node pending
ShownRoadmap == [nodes |-> [id \in ChatNodes |-> RoadmapNode(id, "pending")]]

InitialStore ==
  [currentRoadmap |-> Null, selectedNode |-> Null, chatSessions |-> <<>>,
   activeChatSession |-> Null, isChatOpen |-> FALSE]

setCurrentRoadmap(state, roadmap) == [state EXCEPT !.currentRoadmap = roadmap]

updateNodeStatus(state, nodeId, status) ==
  IF state.currentRoadmap = Null THEN state
  ELSE
    LET updatedNodes ==
          [id \in DOMAIN state.currentRoadmap.nodes |->
             IF id = nodeId
             THEN [state.currentRoadmap.nodes[id] EXCEPT !.status = status]
             ELSE state.currentRoadmap.nodes[id]]
        updatedSelectedNode ==
          IF state.selectedNode # Null /\ state.selectedNode.id = nodeId
          THEN IF nodeId \in DOMAIN updatedNodes THEN updatedNodes[nodeId]
               ELSE Null
          ELSE state.selectedNode
    IN  [state EXCEPT !.currentRoadmap = [nodes |-> updatedNodes],
                      !.selectedNode = updatedSelectedNode]

\* a message of a transcript
ChatMessage(type, content, nodeId) ==
  [type |-> type, content |-> content, nodeId |-> nodeId]

\* the session openChat makes for a node it has no session of; the time
\* Date.now() puts behind the node id is left out of the session id
NewChatSession(node) ==
  [id |-> "chat-" \o node.id, nodeId |-> node.id,
   messages |-> <<ChatMessage("assistant", "Hi! " \o node.id, node.id)>>]

\* chatSessions.find(session => session.nodeId === node.id); openChat only
\* tests the answer for truth, so no session is Null here
FindSession(chatSessions, nodeId) ==
  LET found == {i \in DOMAIN chatSessions : chatSessions[i].nodeId = nodeId}
  IN  IF found = {} THEN Null
      ELSE chatSessions[CHOOSE i \in found : \A j \in found : i <= j]

openChat(state, node) ==
  LET chatSession == FindSession(state.chatSessions, node.id)
  IN  IF chatSession = Null
      THEN [state EXCEPT
              !.chatSessions = Append(state.chatSessions, NewChatSession(node)),
              !.activeChatSession = NewChatSession(node),
              !.selectedNode = node,
              !.isChatOpen = TRUE]
      ELSE [state EXCEPT
              !.activeChatSession = chatSession,
              !.selectedNode = node,
              !.isChatOpen = TRUE]

closeChat(state) ==
  [state EXCEPT !.isChatOpen = FALSE, !.activeChatSession = Null]

\* the message is put behind the transcript of the session that carries the
\* id of the active session, and behind the active session's own copy
Appended(state, message) ==
  [state EXCEPT
     !.chatSessions =
        [i \in DOMAIN state.chatSessions |->
           IF state.activeChatSession # Null
              /\ state.chatSessions[i].id = state.activeChatSession.id
           THEN [state.chatSessions[i] EXCEPT
                   !.messages = Append(@, message)]
           ELSE state.chatSessions[i]],
     !.activeChatSession =
        IF state.activeChatSession # Null
        THEN [state.activeChatSession EXCEPT !.messages = Append(@, message)]
        ELSE Null]

\* generateAIResponse: the answer is made of the question and of the node
\* that was selected when the question was sent
generateAIResponse(userMessage, selectedNode) ==
  IF selectedNode = Null THEN "select a topic"
  ELSE "re: " \o userMessage

\* sendMessage: the store after the call, and the timer the call sets
sendMessage(state, content) ==
  IF state.activeChatSession = Null
  THEN [store |-> state, timer |-> Null]
  ELSE [store |-> Appended(state, ChatMessage("user", content,
                                              state.activeChatSession.nodeId)),
        timer |-> [content |-> generateAIResponse(content, state.selectedNode),
                   nodeId |-> state.activeChatSession.nodeId]]

\* addAssistantMessage without the update of the active session's own copy
addAssistantMessage_ListOnly(state, content, nodeId) ==
  [state EXCEPT
     !.chatSessions =
        Appended(state, ChatMessage("assistant", content, nodeId)).chatSessions]

addAssistantMessage(state, content, nodeId) ==
  Appended(state, ChatMessage("assistant", content, nodeId))

InitClient ==
  /\ llm = [response |-> NoResponse, roadmap |-> NoRoadmapData]
  /\ ctx = NoContext
  /\ storage = EmptyStorage
  /\ calls = {}
  /\ sent = NoCall
  /\ store = InitialStore
  /\ timers = <<>>

\* a task that serves no request
Idle == [op |-> "idle", uid |-> NoUser, doc |-> NoDoc, read |-> 0,
         refreshToken |-> NullToken, presented |-> NullToken]

\* no roadmap request served yet
NoRoadmapRequest == [op |-> "none", user |-> NoUser, id |-> 0]

InitOthers ==
  /\ pend = [p \in Procs |-> Idle]
  /\ roadmaps = [id \in RoadmapIds |-> NoRoadmap]
  /\ nextRm = 0
  /\ rlast = NoRoadmapRequest
  /\ InitClient

\* the effect of a request on the state
Commit(op, r, body) ==
  IF r.status >= 400
  THEN UNCHANGED vars
  ELSE /\ Cardinality(issued \cup r.minted) <= 2 * MaxMints
       /\ users' = r.users
       /\ nextId' = IF op = "register" THEN nextId + 1 ELSE nextId
       /\ issued' = issued \cup r.minted
       /\ hist' = HistAfter(op, r)
       /\ revoked' = IF op = "changePassword"
                     THEN revoked \cup IssuedRefresh(r.user) ELSE revoked
       /\ last' = Last(op, r, body)
       /\ now' = now
       /\ UNCHANGED others

Init ==
  /\ users = [i \in UserIds |-> NoDoc]
  /\ nextId = 0
  /\ now = 0
  /\ issued = {}
  /\ hist = [i \in UserIds |-> <<>>]
  /\ revoked = {}
  /\ last = NoRequest("init")
  /\ InitOthers

Register ==
  \E who \in Clients, password \in RegisterPasswords :
    /\ nextId < MaxUsers
    /\ Commit("register",
              register(users, now, nextId + 1, who[1], who[2], password),
              NullToken)

Login ==
  \E identifier \in Usernames \cup EmailInputs, password \in GoodPasswords :
    Commit("login", login(users, now, identifier, password), NullToken)

Refresh ==
  \E refreshToken \in issued :
    Commit("refresh", refresh(users, now, refreshToken), refreshToken)

Logout ==
  \E tok \in issued, refreshToken \in issued \cup {NullToken} :
    Commit("logout", logout(users, now, Bearer(tok), refreshToken),
           refreshToken)

LogoutAll ==
  \E tok \in issued :
    Commit("logoutAll", logoutAll(users, now, Bearer(tok)), NullToken)

Me ==
  \E h \in Headers :
    /\ me(users, now, h).status = 200
    /\ UNCHANGED vars

ChangePassword ==
  \E tok \in issued, currentPassword \in GoodPasswords,
     newPassword \in GoodPasswords :
    Commit("changePassword",
           changePassword(users, now, Bearer(tok), currentPassword,
                          newPassword),
           NullToken)

DeleteAccount ==
  \E tok \in issued, password \in GoodPasswords :
    Commit("deleteAccount",
           deleteAccount(users, now, Bearer(tok), password), NullToken)

\* time passes
Tick ==
  /\ \E t \in Times : t > now /\ now' = t
  /\ last' = NoRequest("tick")
  /\ UNCHANGED <<users, nextId, issued, hist, revoked>>
  /\ UNCHANGED others

Next ==
  \/ Register
  \/ Login
  \/ Refresh
  \/ Logout
  \/ LogoutAll
  \/ Me
  \/ ChangePassword
  \/ DeleteAccount
  \/ Tick

Spec == Init /\ [][Next]_vars

(***************************************************************************)
(* The state machine of the roadmap store.  The users collection holds a  *)
(* user and an admin (no route sets a role: the admin was made one in the  *)
(* database), each with the token pair of a login at second 0.  A step is  *)
(* a request that is served; a request that is rejected, or that only      *)
(* reads, leaves every variable as it is.                                  *)
(***************************************************************************)
SeedUsers ==
  [i \in UserIds |->
     IF i = 1 THEN NewUser("alice", "a@x.io", "Passw0rd")
     ELSE IF i = 2
     THEN [NewUser("bob", "b@x.io", "Secr3tXy") EXCEPT !.role = "admin"]
     ELSE NoDoc]

\* the users of the roadmap store, logged in
SeedIds == {i \in UserIds : SeedUsers[i].exists}

SeedTokens(i) == generateTokens(i, SeedUsers[i], 0)

\* the Authorization headers of the roadmap requests
Callers ==
  {NoHeader} \cup {Bearer(SeedTokens(i).accessToken) : i \in SeedIds}

SeedAuth ==
  /\ users = [i \in UserIds |->
                IF i \in SeedIds
                THEN [SeedUsers[i] EXCEPT
                        !.refreshTokens =
                           <<TokenEntry(SeedTokens(i).refreshToken, 0)>>,
                        !.lastLoginAt = 0]
                ELSE NoDoc]
  /\ nextId = Cardinality(SeedIds)
  /\ now = 0
  /\ issued = UNION {{SeedTokens(i).accessToken, SeedTokens(i).refreshToken} :
                       i \in SeedIds}
  /\ hist = [i \in UserIds |-> <<>>]
  /\ revoked = {}
  /\ last = NoRequest("init")

InitRoadmap ==
  /\ SeedAuth
  /\ InitOthers

\* the effect of a roadmap request on the state
RoadmapCommit(op, r) ==
  IF r.status >= 400
  THEN UNCHANGED vars
  ELSE /\ roadmaps' = r.roadmaps
       /\ nextRm' = IF op = "create" THEN nextRm + 1 ELSE nextRm
       /\ rlast' = [op |-> op, user |-> r.user, id |-> r.id]
       /\ UNCHANGED authVars
       /\ UNCHANGED pend
       /\ UNCHANGED clientVars

CreateRoadmap ==
  \E h \in Callers, body \in Bodies :
    /\ nextRm < MaxEdited
    /\ RoadmapCommit("create",
                     createRoadmap(roadmaps, users, now, h, nextRm + 1, body))

UpdateRoadmap ==
  \E h \in Callers, id \in RoadmapIds, body \in Bodies :
    RoadmapCommit("update", updateRoadmap(roadmaps, users, now, h, id, body))

DeleteRoadmap ==
  \E h \in Callers, id \in RoadmapIds :
    RoadmapCommit("delete", deleteRoadmap(roadmaps, users, now, h, id))

CompleteStep ==
  \E h \in Callers, id \in RoadmapIds, k \in 1..(MaxSteps + 1),
     isCompleted \in {JsonTrue, JsonFalse, Undefined} :
    RoadmapCommit("complete",
                  completeStep(roadmaps, users, now, h, id, StepName(k),
                               isCompleted))

ToggleLike ==
  \E h \in Callers, id \in RoadmapIds :
    RoadmapCommit("like", toggleLike(roadmaps, users, now, h, id))

GetRoadmap ==
  \E h \in Callers, id \in RoadmapIds :
    /\ getRoadmap(roadmaps, users, now, h, id).status = 200
    /\ UNCHANGED vars

NextRoadmap ==
  \/ CreateRoadmap
  \/ UpdateRoadmap
  \/ DeleteRoadmap
  \/ CompleteStep
  \/ ToggleLike
  \/ GetRoadmap

SpecRoadmap == InitRoadmap /\ [][NextRoadmap]_vars

(***************************************************************************)
(* The progress block of long roadmaps.  The collection holds one roadmap  *)
(* of the user, created with 1..MaxLength steps, and the only request is   *)
(* the user's PUT of the same steps with the first c of them completed.    *)
(***************************************************************************)
\* the header of the user's requests
OwnerHeader == Bearer(SeedTokens(1).accessToken)

\* a body of length steps of which the first completedSteps are completed
LongBody(length, completedSteps) ==
  [title |-> "Go", topic |-> "go", difficulty |-> Undefined, tags |-> <<>>,
   isPublic |-> Undefined, progress |-> NoProgress,
   steps |-> [i \in 1..length |->
                [id |-> Undefined, title |-> "Learn",
                 isCompleted |-> IF i <= completedSteps
                                 THEN JsonTrue ELSE JsonFalse]]]

InitProgress ==
  /\ SeedAuth
  /\ InitClient
  /\ pend = [p \in Procs |-> Idle]
  /\ \E length \in 1..MaxLength :
       LET r == createRoadmap([id \in RoadmapIds |-> NoRoadmap], users, 0,
                              OwnerHeader, 1, LongBody(length, 0))
       IN /\ roadmaps = r.roadmaps
          /\ nextRm = 1
          /\ rlast = [op |-> "create", user |-> r.user, id |-> r.id]

UpdateLong ==
  \E completedSteps \in 0..Len(roadmaps[1].steps) :
    RoadmapCommit("update",
                  updateRoadmap(roadmaps, users, now, OwnerHeader, 1,
                                LongBody(Len(roadmaps[1].steps),
                                         completedSteps)))

NextProgress == UpdateLong

SpecProgress == InitProgress /\ [][NextProgress]_vars

(***************************************************************************)
(* The step-completion endpoint on long roadmaps.  The collection holds    *)
(* one roadmap of the user, created with 1..MaxLength steps, and the user  *)
(* works through it in order: a request completes the first step that is   *)
(* not completed, or takes back the completion of the last one that is.    *)
(***************************************************************************)
CompleteInOrder ==
  \E isCompleted \in {JsonTrue, JsonFalse} :
    LET completedSteps == CountCompleted(roadmaps[1].steps)
        k == IF isCompleted = JsonTrue
             THEN completedSteps + 1 ELSE completedSteps
    IN /\ k \in 1..Len(roadmaps[1].steps)
       /\ RoadmapCommit("complete",
                        completeStep(roadmaps, users, now, OwnerHeader, 1,
                                     StepName(k), isCompleted))

NextToggle == CompleteInOrder

SpecToggle == InitProgress /\ [][NextToggle]_vars

(***************************************************************************)
(* The roadmap store as the listing and fetching routes see it: up to      *)
(* MaxRoadmaps roadmaps of one step each, created public or private by     *)
(* the user and the admin, deleted again, and accounts that are deleted    *)
(* while their roadmaps stay.  No route writes sharedWith: the collection  *)
(* starts empty, or with a private roadmap of the admin that was shared    *)
(* with the user in the database.                                          *)
(***************************************************************************)
\* the steps of the bodies of the listed roadmaps
ListedSteps ==
  <<[id |-> Undefined, title |-> "Learn", isCompleted |-> Undefined]>>

\* the bodies the listed roadmaps are created with
ListedBodies ==
  {[title |-> "Go", topic |-> "go", difficulty |-> Undefined, tags |-> <<>>,
    steps |-> ListedSteps, isPublic |-> Undefined, progress |-> NoProgress],
   [title |-> "Go", topic |-> "go", difficulty |-> "advanced",
    tags |-> <<"web">>, steps |-> ListedSteps, isPublic |-> JsonTrue,
    progress |-> NoProgress],
   [title |-> "Rust", topic |-> "rust", difficulty |-> Undefined,
    tags |-> <<>>, steps |-> ListedSteps, isPublic |-> JsonTrue,
    progress |-> NoProgress]}

\* the header of the admin's requests
AdminHeader == Bearer(SeedTokens(2).accessToken)

\* a private roadmap of the admin, shared with the user
SharedRoadmap ==
  LET r == createRoadmap([id \in RoadmapIds |-> NoRoadmap], SeedUsers, 0,
                         AdminHeader, 1,
                         CHOOSE body \in ListedBodies :
                           body.isPublic = Undefined)
  IN [r.roadmap EXCEPT !.sharedWith = <<1>>]

InitListing ==
  /\ SeedAuth
  /\ InitClient
  /\ pend = [p \in Procs |-> Idle]
  /\ rlast = NoRoadmapRequest
  /\ \/ /\ roadmaps = [id \in RoadmapIds |-> NoRoadmap]
        /\ nextRm = 0
     \/ /\ roadmaps = [id \in RoadmapIds |->
                         IF id = 1 THEN SharedRoadmap ELSE NoRoadmap]
        /\ nextRm = 1

CreateListed ==
  \E h \in Callers, body \in ListedBodies :
    /\ nextRm < MaxRoadmaps
    /\ RoadmapCommit("create",
                     createRoadmap(roadmaps, users, now, h, nextRm + 1, body))

ListRoadmaps ==
  \E h \in Callers, query \in Queries :
    /\ listRoadmaps(roadmaps, users, now, h, query).status = 200
    /\ UNCHANGED vars

ListPublic ==
  \E h \in Callers, query \in Queries :
    /\ listPublic(roadmaps, users, now, h, query).status = 200
    /\ UNCHANGED vars

NextListing ==
  \/ CreateListed
  \/ DeleteRoadmap
  \/ ListRoadmaps
  \/ ListPublic
  \/ GetRoadmap
  \/ DeleteAccount

SpecListing == InitListing /\ [][NextListing]_vars

(***************************************************************************)
(* The credential store with requests in flight at the same time.  A       *)
(* handler runs up to its "await user.save()" in one step, on the user it  *)
(* has read, and the save is a later step that replaces the stored         *)
(* document by the handler's copy; other tasks run in between.  The first  *)
(* save of a registration, the insert, is part of its first step.          *)
(***************************************************************************)
\* task p runs the handler of op up to its last save; r is what the handler
\* computes from the collection as it is now, presented the refresh token a
\* refresh request carries
Start(p, op, r, presented) ==
  /\ pend[p] = Idle
  /\ r.status < 400
  /\ Cardinality(issued \cup r.minted) <= 2 * MaxMints
  /\ issued' = issued \cup r.minted
  /\ pend' = [pend EXCEPT ![p] =
                [op |-> op, uid |-> r.user, doc |-> r.users[r.user],
                 read |-> Len(users[r.user].refreshTokens),
                 refreshToken |-> r.refreshToken,
                 presented |-> presented]]
  /\ users' = IF op = "register"
              THEN [users EXCEPT ![r.user] =
                      [r.users[r.user] EXCEPT !.refreshTokens = <<>>]]
              ELSE users
  /\ nextId' = IF op = "register" THEN nextId + 1 ELSE nextId
  /\ UNCHANGED <<now, hist, revoked, last>>
  /\ UNCHANGED roadmapVars
  /\ UNCHANGED clientVars

StartRegister(p) ==
  \E who \in Clients :
    /\ nextId = 0
    /\ Start(p, "register",
             register(users, now, nextId + 1, who[1], who[2], "Passw0rd"),
             NullToken)

StartLogin(p) ==
  \E identifier \in Usernames, password \in GoodPasswords :
    Start(p, "login", login(users, now, identifier, password), NullToken)

StartRefresh(p) ==
  \E refreshToken \in issued :
    Start(p, "refresh", refresh(users, now, refreshToken), refreshToken)

StartLogout(p) ==
  \E tok \in issued, refreshToken \in issued \cup {NullToken} :
    Start(p, "logout", logout(users, now, Bearer(tok), refreshToken),
          NullToken)

StartLogoutAll(p) ==
  \E tok \in issued :
    Start(p, "logoutAll", logoutAll(users, now, Bearer(tok)), NullToken)

StartChangePassword(p) ==
  \E tok \in issued, currentPassword \in GoodPasswords :
    Start(p, "changePassword",
          changePassword(users, now, Bearer(tok), currentPassword,
                         "Secr3tXy"),
          NullToken)

\* "await user.save()": the stored document is replaced by the task's copy,
\* and the response is sent
Save(p) ==
  /\ pend[p] # Idle
  /\ users' = [users EXCEPT ![pend[p].uid] = pend[p].doc]
  /\ pend' = [pend EXCEPT ![p] = Idle]
  /\ UNCHANGED <<nextId, now, issued, hist, revoked, last>>
  /\ UNCHANGED roadmapVars
  /\ UNCHANGED clientVars

\* the next second begins while requests are in flight
NextSecond ==
  /\ now < MaxSecond
  /\ now' = now + 1
  /\ UNCHANGED <<users, nextId, issued, hist, revoked, last, pend>>
  /\ UNCHANGED roadmapVars
  /\ UNCHANGED clientVars

NextConc ==
  \/ \E p \in Procs : StartRegister(p)
  \/ \E p \in Procs : StartLogin(p)
  \/ \E p \in Procs : StartRefresh(p)
  \/ \E p \in Procs : StartLogout(p)
  \/ \E p \in Procs : StartLogoutAll(p)
  \/ \E p \in Procs : StartChangePassword(p)
  \/ \E p \in Procs : Save(p)
  \/ NextSecond

SpecConc == Init /\ [][NextConc]_vars

\* the concurrent credential store of one registered account whose clients
\* only log in
InitLogins ==
  /\ \E who \in Clients :
       LET r == register([i \in UserIds |-> NoDoc], 0, 1, who[1], who[2],
                         "Passw0rd")
       IN /\ users = r.users
          /\ issued = r.minted
  /\ nextId = 1
  /\ now = 0
  /\ hist = [i \in UserIds |-> <<>>]
  /\ revoked = {}
  /\ last = NoRequest("init")
  /\ InitOthers

NextLogins ==
  \/ \E p \in Procs : StartLogin(p)
  \/ \E p \in Procs : Save(p)
  \/ NextSecond

SpecLogins == InitLogins /\ [][NextLogins]_vars

(***************************************************************************)
(* Registrations in flight at the same time.  A registration looks for a   *)
(* user with its e-mail address, and is answered 409 when there is one;    *)
(* later it inserts its document, and is answered 409 with the key of the  *)
(* E11000 error when a unique index of the collection refuses it; then it  *)
(* stores its refresh token with a second save.  Other registrations run   *)
(* between these steps.                                                    *)
(***************************************************************************)
\* the usernames and e-mail addresses people register with
Registrants == Usernames \X EmailInputs

\* the answer 409 that names a field
Conflict(field) ==
  Last("register", [Reject(users, 409, "") EXCEPT !.field = field],
       NullToken)

\* a registration that has found no user with its e-mail address
Checked(doc) ==
  [op |-> "checked", uid |-> NoUser, doc |-> doc, read |-> 0,
   refreshToken |-> NullToken]

\* task p validates a registration and looks for an existing user
CheckRegister(p) ==
  \E who \in Registrants :
    LET email    == NormalizeEmail(who[2])
        existing == findByEmailOrUsername(users, email)
    IN /\ pend[p] = Idle
       /\ IF existing # NoUser
          THEN /\ last' = Conflict(IF users[existing].email
                                        = ToLowerCase(email)
                                   THEN "email" ELSE "username")
               /\ pend' = pend
          ELSE /\ pend' = [pend EXCEPT ![p] =
                             Checked(NewUser(who[1], email, "Passw0rd"))]
               /\ last' = last
       /\ UNCHANGED <<users, nextId, now, issued, hist, revoked>>
       /\ UNCHANGED roadmapVars
       /\ UNCHANGED clientVars

\* task p inserts its document ("await user.save()") and mints the tokens
InsertRegister(p) ==
  LET doc    == pend[p].doc
      keys   == DuplicateKeys(users, doc.username, doc.email)
      newId  == nextId + 1
      tokens == generateTokens(newId, doc, now)
  IN /\ pend[p].op = "checked"
     /\ IF keys # {}
        THEN /\ \E field \in keys : last' = Conflict(field)
             /\ pend' = [pend EXCEPT ![p] = Idle]
             /\ UNCHANGED <<users, nextId, issued>>
        ELSE /\ nextId < MaxUsers
             /\ users' = [users EXCEPT ![newId] = doc]
             /\ nextId' = newId
             /\ issued' = issued \cup {tokens.accessToken,
                                       tokens.refreshToken}
             /\ pend' = [pend EXCEPT ![p] =
                           [op |-> "register", uid |-> newId,
                            doc |-> [doc EXCEPT !.refreshTokens =
                                       Append(@, TokenEntry(
                                                   tokens.refreshToken,
                                                   now))],
                            read |-> 0,
                            refreshToken |-> tokens.refreshToken]]
             /\ last' = last
     /\ UNCHANGED <<now, hist, revoked>>
     /\ UNCHANGED roadmapVars
     /\ UNCHANGED clientVars

\* task p stores the refresh token of its registration and answers 201
SaveRegister(p) ==
  /\ pend[p].op = "register"
  /\ Save(p)

NextRegister ==
  \/ \E p \in Procs : CheckRegister(p)
  \/ \E p \in Procs : InsertRegister(p)
  \/ \E p \in Procs : SaveRegister(p)

SpecRegister == Init /\ [][NextRegister]_vars

(***************************************************************************)
(* The roadmap store with step completions of one roadmap in flight at the *)
(* same time.  fetchRoadmap reads the document; updateStepCompletion       *)
(* changes the copy and saves it, the pre-save hook recomputing the        *)
(* progress block of the copy; other tasks run between the read and the    *)
(* write.  save() writes the paths the task modified (the flag and the     *)
(* date of its step, the progress block) or the document as a whole.       *)
(***************************************************************************)
InitSteps ==
  /\ SeedAuth
  /\ InitClient
  /\ pend = [p \in Procs |-> Idle]
  /\ \E length \in 2..MaxRaced :
       LET r == createRoadmap([id \in RoadmapIds |-> NoRoadmap], users, 0,
                              OwnerHeader, 1, LongBody(length, 0))
       IN /\ roadmaps = r.roadmaps
          /\ nextRm = 1
          /\ rlast = [op |-> "create", user |-> r.user, id |-> r.id]

\* task p serves a step completion up to the write of save(): the copy it
\* holds is the document it read with the step changed and the progress
\* block recomputed
StartComplete(p) ==
  \E k \in 1..MaxRaced, isCompleted \in {JsonTrue, JsonFalse} :
    LET r == completeStep(roadmaps, users, now, OwnerHeader, 1, StepName(k),
                          isCompleted)
    IN /\ pend[p] = Idle
       /\ r.status = 200
       /\ pend' = [pend EXCEPT ![p] =
                     [op |-> "complete", uid |-> r.user, id |-> r.id,
                      stepId |-> StepName(k), doc |-> r.roadmap]]
       /\ UNCHANGED authVars
       /\ UNCHANGED roadmapVars
       /\ UNCHANGED clientVars

\* what save() leaves in the collection: the copy, or the stored document
\* with the paths the task modified
Written(stored, doc, stepId, whole) ==
  LET k == FindStep(doc.steps, stepId)
  IN IF whole THEN doc
     ELSE [stored EXCEPT !.steps[k].isCompleted = doc.steps[k].isCompleted,
                         !.steps[k].completedAt = doc.steps[k].completedAt,
                         !.progress = doc.progress]

\* the write of save(), after which the task answers 200 with the progress
\* block of its copy
SaveComplete(p) ==
  \E whole \in BOOLEAN :
    /\ pend[p] # Idle
    /\ pend[p].op = "complete"
    /\ roadmaps' = [roadmaps EXCEPT ![pend[p].id] =
                      Written(@, pend[p].doc, pend[p].stepId, whole)]
    /\ rlast' = [op |-> "complete", user |-> pend[p].uid, id |-> pend[p].id]
    /\ pend' = [pend EXCEPT ![p] = Idle]
    /\ UNCHANGED nextRm
    /\ UNCHANGED authVars
    /\ UNCHANGED clientVars

NextSteps ==
  \/ \E p \in Procs : StartComplete(p)
  \/ \E p \in Procs : SaveComplete(p)

SpecSteps == InitSteps /\ [][NextSteps]_vars

(***************************************************************************)
(* The browser parses one AI response.                                     *)
(***************************************************************************)
\* the server while the browser is looked at: the seeded accounts, no
\* request in flight, no roadmap stored
ServerAtRest ==
  /\ SeedAuth
  /\ pend = [p \in Procs |-> Idle]
  /\ roadmaps = [id \in RoadmapIds |-> NoRoadmap]
  /\ nextRm = 0
  /\ rlast = NoRoadmapRequest

InitParse ==
  /\ ServerAtRest
  /\ \E response \in Responses :
       llm = [response |-> response, roadmap |-> NoRoadmapData]
  /\ ctx = NoContext
  /\ storage = EmptyStorage
  /\ calls = {}
  /\ sent = NoCall
  /\ store = InitialStore
  /\ timers = <<>>

\* generateRoadmapFromLLM hands the response of the provider to
\* parseRoadmapResponse
ParseResponse ==
  /\ llm.roadmap.state = "none"
  /\ llm' = [llm EXCEPT !.roadmap = parseRoadmapResponse(llm.response)]
  /\ UNCHANGED <<serverVars, ctx, storage, calls, sent, store, timers>>

NextParse == ParseResponse

SpecParse == InitParse /\ [][NextParse]_vars

(***************************************************************************)
(* The auth context of the browser.  A call that awaits the server is      *)
(* split at its await: it is in calls until the response arrives, and the  *)
(* responses of the calls in flight arrive in any order.                   *)
(***************************************************************************)
InitContext ==
  /\ ServerAtRest
  /\ llm = [response |-> NoResponse, roadmap |-> NoRoadmapData]
  /\ ctx = NoContext
  /\ storage = EmptyStorage
  /\ calls = {}
  /\ sent = NoCall
  /\ store = InitialStore
  /\ timers = <<>>

\* what the auth context leaves alone
beyondContext == <<serverVars, llm, store, timers>>

\* the lowest slot no call waits in
FreeSlot(slot) ==
  /\ slot \in CallSlots
  /\ \A call \in calls : call.slot # slot
  /\ \A lower \in 1..(slot - 1) : \E call \in calls : call.slot = lower

\* a call issues its request and awaits the response; the call keeps the
\* tokens of the render that made it
Await(op, request) ==
  \E slot \in CallSlots :
    /\ FreeSlot(slot)
    /\ calls' = calls \cup {[slot |-> slot, op |-> op, tokens |-> ctx.tokens]}
    /\ sent' = request

\* the state of the browser after a step of the context
Render(browser) ==
  /\ ctx' = browser.ctx
  /\ storage' = browser.storage

\* the effect of line 63: AuthProvider mounts and loads what is stored
Mount ==
  /\ ~ctx.mounted
  /\ Render(loadAuthData(ctx, storage))
  /\ UNCHANGED <<calls, sent, beyondContext>>

\* login(identifier, password) up to its await
BeginLogin ==
  /\ ctx.mounted
  /\ Await("login", apiRequest(ctx, "login", "/auth/login"))
  /\ ctx' = [ctx EXCEPT !.isLoading = TRUE]
  /\ UNCHANGED <<storage, beyondContext>>

\* register(userData) up to its await
BeginRegister ==
  /\ ctx.mounted
  /\ Await("register", apiRequest(ctx, "register", "/auth/register"))
  /\ ctx' = [ctx EXCEPT !.isLoading = TRUE]
  /\ UNCHANGED <<storage, beyondContext>>

\* login and register after the await: saveAuthData on 2xx, the error is
\* rethrown otherwise, isLoading is reset in both cases
SignedIn(op) ==
  \E call \in calls, ok \in BOOLEAN, user \in ServerUsers, k \in 1..MaxPairs :
    LET browser == IF ok
                   THEN saveAuthData(ctx, storage, user, TokenObject(k))
                   ELSE Browser(ctx, storage)
    IN /\ call.op = op
       /\ Render(Browser([browser.ctx EXCEPT !.isLoading = FALSE],
                         browser.storage))
       /\ calls' = calls \ {call}
       /\ UNCHANGED <<sent, beyondContext>>

EndLogin == SignedIn("login")

EndRegister == SignedIn("register")

\* logout() up to its await; with no refresh token nothing is awaited and
\* the finally block runs at once
BeginLogout ==
  /\ ctx.mounted
  /\ IF Truthy(refreshTokenOf(ctx.tokens))
     THEN /\ Await("logout", apiRequest(ctx, "logout", "/auth/logout"))
          /\ UNCHANGED <<ctx, storage>>
     ELSE /\ Render(clearAuthData(ctx, storage))
          /\ UNCHANGED <<calls, sent>>
  /\ UNCHANGED beyondContext

\* logout() after the await: clearAuthData, whatever the server answered
EndLogout ==
  \E call \in calls :
    /\ call.op = "logout"
    /\ Render(clearAuthData(ctx, storage))
    /\ calls' = calls \ {call}
    /\ UNCHANGED <<sent, beyondContext>>

\* refreshToken() up to its await: a plain fetch with no Authorization
\* header; with no refresh token it throws, and the catch block clears
BeginRefresh ==
  /\ ctx.mounted
  /\ IF Truthy(refreshTokenOf(ctx.tokens))
     THEN /\ Await("refreshToken",
                   [by |-> "refreshToken", endpoint |-> "/auth/refresh",
                    authorization |-> Undefined])
          /\ UNCHANGED <<ctx, storage>>
     ELSE /\ Render(clearAuthData(ctx, storage))
          /\ UNCHANGED <<calls, sent>>
  /\ UNCHANGED beyondContext

\* refreshToken() after the await: on 2xx the tokens of the response replace
\* those the call kept, in memory and under auth_tokens; otherwise
\* clearAuthData
EndRefresh ==
  \E call \in calls, ok \in BOOLEAN, k \in 1..MaxPairs :
    LET newTokens == TokenObject(k)
    IN /\ call.op = "refreshToken"
       /\ IF ok
          THEN Render(Browser([ctx EXCEPT !.tokens = newTokens],
                              [storage EXCEPT !["auth_tokens"] =
                                                JsonStringify(newTokens)]))
          ELSE Render(clearAuthData(ctx, storage))
       /\ calls' = calls \ {call}
       /\ UNCHANGED <<sent, beyondContext>>

\* updateUser({firstName})
UpdateUser ==
  /\ ctx.mounted
  /\ Render(updateUser(ctx, storage, "Al"))
  /\ UNCHANGED <<calls, sent, beyondContext>>

\* the page is loaded again: the components start over, the calls in flight
\* are gone, localStorage stays
Reload ==
  /\ ctx.mounted
  /\ ctx' = NoContext
  /\ calls' = {}
  /\ sent' = NoCall
  /\ UNCHANGED <<storage, beyondContext>>

\* the Dashboard is behind ProtectedRoute: it renders when the context is
\* not loading and isAuthenticated
DashboardShown == ctx.mounted /\ ~ctx.isLoading /\ isAuthenticated(ctx)

\* fetchRoadmaps() of the Dashboard
FetchRoadmaps ==
  /\ DashboardShown
  /\ sent' = dashboardRequest(storage, "fetchRoadmaps", "/roadmaps")
  /\ UNCHANGED <<ctx, storage, calls, beyondContext>>

\* deleteRoadmap(roadmapId) of the Dashboard
DeleteFromDashboard ==
  /\ DashboardShown
  /\ sent' = dashboardRequest(storage, "deleteRoadmap", "/roadmaps/:id")
  /\ UNCHANGED <<ctx, storage, calls, beyondContext>>

NextContext ==
  \/ Mount
  \/ BeginLogin
  \/ EndLogin
  \/ BeginRegister
  \/ EndRegister
  \/ BeginLogout
  \/ EndLogout
  \/ BeginRefresh
  \/ EndRefresh
  \/ UpdateUser
  \/ Reload
  \/ FetchRoadmaps
  \/ DeleteFromDashboard

SpecContext == InitContext /\ [][NextContext]_vars

(***************************************************************************)
(* The chat of the browser: the sidebar and the renderer call the actions  *)
(* of the roadmap store, and the timer sendMessage sets fires one second   *)
(* later, after whatever the user did in between.                          *)
(***************************************************************************)
InitChat ==
  /\ ServerAtRest
  /\ InitClient

beyondChat == <<serverVars, llm, ctx, storage, calls, sent>>

\* the user messages of all transcripts
UserMessages(chatSessions) ==
  {<<i, k>> \in (DOMAIN chatSessions) \X (1..(1 + 2 * MaxMessages)) :
     /\ k \in DOMAIN chatSessions[i].messages
     /\ chatSessions[i].messages[k].type = "user"}

\* RoadmapApp puts the generated roadmap on screen
SetCurrentRoadmap ==
  /\ store.currentRoadmap = Null
  /\ store' = setCurrentRoadmap(store, ShownRoadmap)
  /\ UNCHANGED <<beyondChat, timers>>

\* RoadmapRenderer: a click on a node of the roadmap on screen
OpenChat ==
  /\ store.currentRoadmap # Null
  /\ \E id \in DOMAIN store.currentRoadmap.nodes :
       store' = openChat(store, store.currentRoadmap.nodes[id])
  /\ UNCHANGED <<beyondChat, timers>>

\* ChatSidebar: the close button of the open sidebar
CloseChat ==
  /\ store.isChatOpen
  /\ store' = closeChat(store)
  /\ UNCHANGED <<beyondChat, timers>>

\* ChatSidebar handleSendMessage: sendMessage puts the user message in the
\* transcript and sets the timer of the reply
SendMessage ==
  /\ store.activeChatSession # Null
  /\ Cardinality(UserMessages(store.chatSessions)) < MaxMessages
  /\ LET sending == sendMessage(store,
                      Typed(Cardinality(UserMessages(store.chatSessions)) + 1))
     IN  /\ store' = sending.store
         /\ timers' = Append(timers, sending.timer)
  /\ UNCHANGED beyondChat

\* the oldest timer fires: addAssistantMessage with the reply and the node id
\* sendMessage captured
FireTimer ==
  /\ timers # <<>>
  /\ store' = addAssistantMessage(store, Head(timers).content,
                                  Head(timers).nodeId)
  /\ timers' = Tail(timers)
  /\ UNCHANGED beyondChat

\* ChatSidebar handleStatusChange and the renderer's onStatusChange
UpdateNodeStatus ==
  /\ store.currentRoadmap # Null
  /\ \E id \in ChatNodes, status \in NodeStatuses :
       store' = updateNodeStatus(store, id, status)
  /\ UNCHANGED <<beyondChat, timers>>

NextChat ==
  \/ SetCurrentRoadmap
  \/ OpenChat
  \/ CloseChat
  \/ SendMessage
  \/ FireTimer
  \/ UpdateNodeStatus

SpecChat == InitChat /\ [][NextChat]_vars



(***************************************************************************)
(* Claims about the credential store, checked under Spec.                  *)
(***************************************************************************)
\* what a client can put in the refreshToken field of a body
BodyTokens == Presentable \cup {NullToken}

\* every Authorization header a client can send
AllHeaders == Headers \cup {Bearer(NullToken)}

\* a token generateTokens made as an access token
IsAccess(tok) == tok \in issued /\ tok.username # Undefined

\* a token generateTokens made as a refresh token
IsRefresh(tok) == tok \in issued /\ tok.username = Undefined

\* C1: a refresh token is single-use.  When POST /auth/refresh answers 200
\* for a presented token T of user U, T is gone from U's stored list, which
\* is the old list without T followed by the one token just minted, no other
\* user changes, and presenting T again is answered 401; every other answer
\* is a 401 that leaves the collection as it was.
C1_SingleUse ==
  \A T \in BodyTokens :
    LET r == refresh(users, now, T)
    IN IF r.status = 200
       THEN /\ ~SomeToken(r.users[r.user].refreshTokens, T)
            /\ r.users[r.user].refreshTokens =
                 Append(FilterOut(users[r.user].refreshTokens, T),
                        TokenEntry(r.refreshToken, now))
            /\ \A i \in UserIds \ {r.user} : r.users[i] = users[i]
            /\ refresh(r.users, now, T).status = 401
       ELSE r.status = 401 /\ r.users = users

\* the part of C1 the code keeps: the other tokens stay, one entry is
\* appended, and a rejected request changes nothing
C1_Kept ==
  \A T \in BodyTokens :
    LET r == refresh(users, now, T)
    IN IF r.status = 200
       THEN /\ SomeToken(users[r.user].refreshTokens, T)
            /\ r.users[r.user].refreshTokens =
                 Append(FilterOut(users[r.user].refreshTokens, T),
                        TokenEntry(r.refreshToken, now))
            /\ \A i \in UserIds \ {r.user} : r.users[i] = users[i]
       ELSE r.status = 401 /\ r.users = users

\* every token of the run of logins is still within its lifetime
Unexpired(h) == \A i \in 1..Len(h) : JwtVerifyError(h[i], now) = ""

\* C2: after a registration and n successful logins of one user with nothing
\* else in between, the stored list is the last min(n+1, 5) refresh tokens
\* issued, in issue order; after 6 logins the 5 tokens issued last are
\* accepted by /auth/refresh and the one issued first is answered 401.
C2_LastFive ==
  \A u \in UserIds :
    hist[u] # <<>> =>
      /\ TokensOf(users[u].refreshTokens) = SliceLast(hist[u], KeepTokens)
      /\ (Len(hist[u]) = KeepTokens + 2 /\ Unexpired(hist[u])) =>
           /\ \A i \in 3..(KeepTokens + 2) :
                refresh(users, now, hist[u][i]).status = 200
           /\ refresh(users, now, hist[u][1]).status = 401

\* the part of C2 the code keeps: the stored list is the last min(n+1, 5)
\* tokens issued, in issue order
C2_Kept ==
  \A u \in UserIds :
    hist[u] # <<>> =>
      TokensOf(users[u].refreshTokens) = SliceLast(hist[u], KeepTokens)

\* C3: whatever requests were served, in whatever order, every user's
\* stored refresh-token list holds at most 5 tokens.
C3_AtMostFive ==
  \A u \in UserIds : Len(users[u].refreshTokens) <= KeepTokens

\* a login that read a full list has trimmed its copy and is about to save
\* it, while another login or refresh of the same user is in flight
C3_Witness ==
  \E p \in Procs, q \in Procs :
    /\ p # q
    /\ pend[p].op = "login"
    /\ pend[p].read = KeepTokens
    /\ Len(pend[p].doc.refreshTokens) = KeepTokens
    /\ pend[q].op \in {"login", "refresh"}
    /\ pend[q].uid = pend[p].uid
    /\ Len(users[pend[p].uid].refreshTokens) = KeepTokens

\* C4: a password change whose current password verifies empties the
\* user's stored list, and every refresh token issued to the user before the
\* change is answered 401 by /auth/refresh from then on; a change with a
\* wrong current password is answered 401 and leaves the hash and the list
\* as they were.
C4_PasswordChange ==
  /\ \A tok \in issued, cur \in PasswordInputs, new \in PasswordInputs :
       LET r    == changePassword(users, now, Bearer(tok), cur, new)
           auth == authenticate(users, now, Bearer(tok))
       IN /\ r.status = 200 => r.users[r.user].refreshTokens = <<>>
          /\ ( /\ auth.status = 0
               /\ cur # ""
               /\ new \in GoodPasswords
               /\ ~comparePassword(users[auth.user], cur) )
             => r.status = 401 /\ r.users = users
  /\ \A T \in revoked : refresh(users, now, T).status = 401

\* the part of C4 the code keeps: right after the change the list is empty
\* and no token issued so far is accepted
C4_Kept ==
  \A tok \in issued, cur \in PasswordInputs, new \in PasswordInputs :
    LET r    == changePassword(users, now, Bearer(tok), cur, new)
        auth == authenticate(users, now, Bearer(tok))
    IN /\ r.status = 200 =>
            /\ r.users[r.user].refreshTokens = <<>>
            /\ \A T \in IssuedRefresh(r.user) :
                 refresh(r.users, now, T).status = 401
       /\ ( /\ auth.status = 0
            /\ cur # ""
            /\ new \in GoodPasswords
            /\ ~comparePassword(users[auth.user], cur) )
          => r.status = 401 /\ r.users = users

\* C5: a refresh token presented as the Bearer credential never gets
\* through required auth: the answer is 401 and req.user is not set.
C5_RefreshNotBearer ==
  \A T \in issued :
    IsRefresh(T) =>
      LET auth == authenticate(users, now, Bearer(T))
      IN auth.status = 401 /\ auth.user = NoUser

\* C6: the access token minted for a user verifies to the claims it was
\* minted with, the refresh token verifies to a payload with the id and
\* neither username nor email, and verifyRefreshToken refuses every token
\* that carries a username or an email, so /auth/refresh answers 401 to an
\* access token.
C6_TokenRoundTrip ==
  /\ \A u \in UserIds :
       users[u].exists =>
         LET tk == generateTokens(u, users[u], now)
             va == verifyToken(tk.accessToken, now)
             vr == verifyRefreshToken(tk.refreshToken, now)
         IN /\ va.ok
            /\ va.decoded = [id |-> u, username |-> users[u].username,
                             email |-> users[u].email, role |-> users[u].role]
            /\ vr.ok
            /\ vr.decoded.id = u
            /\ vr.decoded.username = Undefined
            /\ vr.decoded.email = Undefined
  /\ \A T \in Presentable :
       (Truthy(T.username) \/ Truthy(T.email)) =>
         /\ ~verifyRefreshToken(T, now).ok
         /\ refresh(users, now, T).status = 401
  /\ last.op \in {"register", "login", "refresh"} =>
       /\ \E A \in issued :
            /\ IsAccess(A) /\ A.id = last.user /\ A.iat = now
            /\ verifyToken(A, now).ok
            /\ verifyToken(A, now).decoded =
                 [id |-> last.user, username |-> users[last.user].username,
                  email |-> users[last.user].email,
                  role |-> users[last.user].role]
       /\ verifyRefreshToken(last.refreshToken, now).ok
       /\ verifyRefreshToken(last.refreshToken, now).decoded.id = last.user

\* a login has just minted a pair, and the access token of the pair, still
\* valid, is what /auth/refresh is given
C6_Witness ==
  /\ last.op = "login"
  /\ \E A \in issued :
       /\ IsAccess(A) /\ A.id = last.user /\ A.iat = now
       /\ verifyToken(A, now).ok
       /\ refresh(users, now, A).code = "REFRESH_ERROR"

\* C7: required auth answers 401 with the code of the cause: NO_TOKEN
\* without a "Bearer <token>" header, TOKEN_EXPIRED for an expired token,
\* INVALID_TOKEN for a malformed or wrongly signed one, USER_NOT_FOUND for a
\* valid token of a user that is gone, AUTH_FAILED for nothing of these;
\* next() is called only when the token verifies and the user exists.
C7_AuthCodes ==
  \A h \in AllHeaders :
    LET auth  == authenticate(users, now, h)
        tok   == extractTokenFromHeader(h)
        err   == JwtVerifyError(tok, now)
        cause == IF tok = NullToken THEN "NO_TOKEN"
                 ELSE IF err = "TokenExpiredError" THEN "TOKEN_EXPIRED"
                 ELSE IF err = "JsonWebTokenError" THEN "INVALID_TOKEN"
                 ELSE IF findById(users, tok.id) = NoUser THEN "USER_NOT_FOUND"
                 ELSE ""
    IN IF cause = ""
       THEN auth.status = 0 /\ auth.user = tok.id
       ELSE auth.status = 401 /\ auth.code = cause

\* the part of C7 the code keeps: 401 for each cause, NO_TOKEN and
\* USER_NOT_FOUND as claimed, next() only for a verified token of a user
\* that exists
C7_Kept ==
  \A h \in AllHeaders :
    LET auth  == authenticate(users, now, h)
        tok   == extractTokenFromHeader(h)
        err   == JwtVerifyError(tok, now)
    IN /\ auth.status \in {0, 401}
       /\ auth.status = 0 <=>
            (tok # NullToken /\ err = "" /\ findById(users, tok.id) # NoUser)
       /\ tok = NullToken => auth.code = "NO_TOKEN"
       /\ (tok # NullToken /\ err # "") => auth.code = "AUTH_FAILED"
       /\ (tok # NullToken /\ err = "" /\ findById(users, tok.id) = NoUser)
            => auth.code = "USER_NOT_FOUND"

\* the step names a step-completion request can carry
StepNames == {StepName(k) : k \in 1..(MaxSteps + 1)}

\* C8: for every roadmap R and every authenticated caller U that is neither
\* R's creator nor an admin, PUT /roadmaps/:id is answered 403 for every
\* body, valid or not, DELETE /roadmaps/:id and the step-completion
\* endpoint are answered 403 too, and the collection is left as it was; the
\* creator and an admin pass the ownership gate.
C8_OwnershipGate ==
  \A id \in RoadmapIds, h \in Callers :
    LET auth == authenticate(users, now, h)
    IN (auth.status = 0 /\ roadmaps[id].exists) =>
         IF /\ roadmaps[id].createdBy # auth.user
            /\ users[auth.user].role # "admin"
         THEN /\ \A body \in Bodies :
                   LET r == updateRoadmap(roadmaps, users, now, h, id, body)
                   IN r.status = 403 /\ r.roadmaps = roadmaps
              /\ LET r == deleteRoadmap(roadmaps, users, now, h, id)
                 IN r.status = 403 /\ r.roadmaps = roadmaps
              /\ \A stepId \in StepNames,
                    isCompleted \in {JsonTrue, JsonFalse, Undefined} :
                   LET r == completeStep(roadmaps, users, now, h, id,
                                         stepId, isCompleted)
                   IN r.status = 403 /\ r.roadmaps = roadmaps
         ELSE /\ OwnershipGate(roadmaps, users, now, h, id).status = 0
              /\ \A body \in Bodies :
                   updateRoadmap(roadmaps, users, now, h, id, body).status
                     = IF createRoadmapValid(body) THEN 200 ELSE 400
              /\ deleteRoadmap(roadmaps, users, now, h, id).status = 200

\* the admin has created and updated a roadmap, and the PUT, the DELETE
\* and the step completion of the other user are refused with 403
C8_Witness ==
  /\ rlast.op = "update"
  /\ roadmaps[1].exists
  /\ roadmaps[1].createdBy = 2
  /\ \E h \in Callers :
       /\ authenticate(users, now, h).user = 1
       /\ \E body \in Bodies :
            /\ createRoadmapValid(body)
            /\ updateRoadmap(roadmaps, users, now, h, 1, body).code
                 = "OWNERSHIP_REQUIRED"
       /\ deleteRoadmap(roadmaps, users, now, h, 1).status = 403
       /\ completeStep(roadmaps, users, now, h, 1, StepName(1),
                       JsonTrue).status = 403

\* the steps of new that old has too, by id, have old's completion flag
SameFlags(old, new) ==
  \A k \in 1..Len(old.steps), j \in 1..Len(new.steps) :
    new.steps[j].id = old.steps[k].id =>
      new.steps[j].isCompleted = old.steps[k].isCompleted

\* C9 without the PUT: a created roadmap has incomplete steps only, like
\* and fetch leave the flags, the toggle sets the flag it is given
C9_Kept ==
  /\ nextRm < MaxRoadmaps =>
       \A h \in Callers, body \in Bodies :
         LET r == createRoadmap(roadmaps, users, now, h, nextRm + 1, body)
         IN r.status = 201 =>
              \A k \in 1..Len(r.roadmap.steps) :
                ~r.roadmap.steps[k].isCompleted
  /\ \A h \in Callers, id \in RoadmapIds :
       /\ LET r == toggleLike(roadmaps, users, now, h, id)
          IN r.status = 200 => SameFlags(roadmaps[id], r.roadmaps[id])
       /\ getRoadmap(roadmaps, users, now, h, id).roadmaps = roadmaps
       /\ \A stepId \in StepNames, isCompleted \in {JsonTrue, JsonFalse} :
            LET r == completeStep(roadmaps, users, now, h, id, stepId,
                                  isCompleted)
                k == FindStep(roadmaps[id].steps, stepId)
            IN r.status = 200 =>
                 /\ r.roadmap.steps[k].isCompleted = (isCompleted = JsonTrue)
                 /\ \A j \in 1..Len(r.roadmap.steps) :
                      j # k => r.roadmap.steps[j] = roadmaps[id].steps[j]

\* C9: every step of a newly created roadmap is incomplete, whatever the
\* body says, and afterwards only the step-completion endpoint changes the
\* completion flag of a step: PUT, like and fetch leave the flag of every
\* step as it was, and the endpoint moves a step in both directions.
C9_OnlyByToggle ==
  /\ C9_Kept
  /\ \A h \in Callers, id \in RoadmapIds, body \in Bodies :
       LET r == updateRoadmap(roadmaps, users, now, h, id, body)
       IN r.status = 200 => SameFlags(roadmaps[id], r.roadmaps[id])

\* round(num / den) in exact arithmetic, the half rounded upwards
RoundHalfUp(num, den) == (2 * num + den) \div (2 * den)

\* the part of C10 that does not depend on how the percentage is rounded:
\* the counts are those of the steps, the percentage is in 0..100 and at
\* most 1 away from the exact quotient, a created roadmap has progress
\* {0, N, 0}, and a progress block in the body changes nothing
C10_Kept ==
  /\ \A id \in RoadmapIds :
       roadmaps[id].exists =>
         LET doc == roadmaps[id]
             c   == CountCompleted(doc.steps)
         IN /\ doc.progress.totalSteps = Len(doc.steps)
            /\ doc.progress.completedSteps = c
            /\ doc.progress.percentage \in 0..100
            /\ doc.progress.percentage * Len(doc.steps) <= 100 * c + Len(doc.steps)
            /\ doc.progress.percentage * Len(doc.steps) >= 100 * c - Len(doc.steps)
  /\ \A h \in Callers, body \in Bodies :
       LET plain == [body EXCEPT !.progress = NoProgress]
       IN /\ nextRm < MaxRoadmaps =>
               LET r == createRoadmap(roadmaps, users, now, h, nextRm + 1,
                                      body)
               IN /\ r = createRoadmap(roadmaps, users, now, h, nextRm + 1,
                                       plain)
                  /\ r.status = 201 =>
                       /\ r.roadmap.progress.completedSteps = 0
                       /\ r.roadmap.progress.totalSteps = Len(body.steps)
                       /\ r.roadmap.progress.percentage = 0
          /\ \A id \in RoadmapIds :
               updateRoadmap(roadmaps, users, now, h, id, body)
                 = updateRoadmap(roadmaps, users, now, h, id, plain)

\* C10: in every persisted roadmap progress.totalSteps is the number of
\* steps, progress.completedSteps the number of completed steps and
\* progress.percentage is round(100 * completedSteps / totalSteps), in
\* 0..100; a roadmap created with N steps has progress {0, N, 0}; no
\* progress value sent by a client is stored.
C10_ProgressDerived ==
  /\ C10_Kept
  /\ \A id \in RoadmapIds :
       roadmaps[id].exists =>
         roadmaps[id].progress.percentage =
           RoundHalfUp(100 * CountCompleted(roadmaps[id].steps),
                       Len(roadmaps[id].steps))

(***************************************************************************)
(* Claims about the step-completion endpoint, checked under SpecToggle.    *)
(***************************************************************************)
\* the steps of old and new have the same completion flags, step by step
EqualFlags(old, new) ==
  /\ Len(new.steps) = Len(old.steps)
  /\ \A j \in 1..Len(old.steps) :
       new.steps[j].isCompleted = old.steps[j].isCompleted

\* the counts and the percentage of two progress blocks are the same
EqualProgress(p, q) ==
  /\ p.completedSteps = q.completedSteps
  /\ p.totalSteps = q.totalSteps
  /\ p.percentage = q.percentage

\* the part of C11 that does not depend on how the percentage is rounded:
\* completing step k sets the flag of step k only and counts it, taking it
\* back restores the counts, the percentage and the flags, and a repeated
\* request changes neither the flags nor the progress block
C11_Kept ==
  \A id \in RoadmapIds, h \in Callers :
    OwnershipGate(roadmaps, users, now, h, id).status = 0 =>
      \A k \in 1..Len(roadmaps[id].steps) :
        LET doc    == roadmaps[id]
            stepId == doc.steps[k].id
            done   == completeStep(roadmaps, users, now, h, id, stepId,
                                   JsonTrue)
            again  == completeStep(done.roadmaps, users, now, h, id, stepId,
                                   JsonTrue)
            undone == completeStep(done.roadmaps, users, now, h, id, stepId,
                                   JsonFalse)
            twice  == completeStep(undone.roadmaps, users, now, h, id,
                                   stepId, JsonFalse)
        IN /\ done.status = 200 /\ undone.status = 200
           /\ done.roadmap.steps[k].isCompleted
           /\ ~undone.roadmap.steps[k].isCompleted
           /\ \A j \in 1..Len(doc.steps) :
                j # k =>
                  /\ done.roadmap.steps[j] = doc.steps[j]
                  /\ undone.roadmap.steps[j] = doc.steps[j]
           /\ Len(done.roadmap.steps) = Len(doc.steps)
           /\ Len(undone.roadmap.steps) = Len(doc.steps)
           /\ done.roadmap.progress.completedSteps =
                CountCompleted(doc.steps)
                  + IF doc.steps[k].isCompleted THEN 0 ELSE 1
           /\ done.roadmap.progress.totalSteps = Len(doc.steps)
           /\ ~doc.steps[k].isCompleted =>
                /\ EqualProgress(undone.roadmap.progress, doc.progress)
                /\ EqualFlags(doc, undone.roadmap)
           /\ EqualFlags(done.roadmap, again.roadmap)
           /\ again.roadmap.progress = done.roadmap.progress
           /\ EqualFlags(undone.roadmap, twice.roadmap)
           /\ twice.roadmap.progress = undone.roadmap.progress

\* C11: for a roadmap of N steps and any step k, setting k to complete
\* yields progress.percentage = round(100 * completed / N), completed
\* counting k, and setting k back to incomplete restores completedSteps and
\* percentage to their values before the first toggle; both toggles change
\* the completion flag of step k only, and repeating the same isCompleted
\* value changes neither the completion flags nor the progress block.
C11_ToggleRoundTrip ==
  /\ C11_Kept
  /\ \A id \in RoadmapIds, h \in Callers :
       OwnershipGate(roadmaps, users, now, h, id).status = 0 =>
         \A k \in 1..Len(roadmaps[id].steps) :
           LET done == completeStep(roadmaps, users, now, h, id,
                                    roadmaps[id].steps[k].id, JsonTrue)
           IN done.roadmap.progress.percentage =
                RoundHalfUp(100 * done.roadmap.progress.completedSteps,
                            Len(roadmaps[id].steps))

(***************************************************************************)
(* Claims about the roadmap store, checked under SpecRoadmap.              *)
(***************************************************************************)
\* C12: every persisted roadmap has at least one step: POST /roadmaps and
\* PUT /roadmaps/:id with an empty steps array are answered 400 once the
\* caller is let through, and no request with an empty steps array creates
\* or changes a roadmap.
C12_AtLeastOneStep ==
  /\ \A id \in RoadmapIds :
       roadmaps[id].exists => Len(roadmaps[id].steps) >= 1
  /\ \A h \in Callers, body \in Bodies :
       body.steps = <<>> =>
         /\ nextRm < MaxRoadmaps =>
              LET r == createRoadmap(roadmaps, users, now, h, nextRm + 1,
                                     body)
              IN /\ r.status >= 400
                 /\ r.roadmaps = roadmaps
                 /\ authenticate(users, now, h).status = 0 => r.status = 400
         /\ \A id \in RoadmapIds :
              LET r == updateRoadmap(roadmaps, users, now, h, id, body)
              IN /\ r.status >= 400
                 /\ r.roadmaps = roadmaps
                 /\ OwnershipGate(roadmaps, users, now, h, id).status = 0
                      => r.status = 400

\* a roadmap has been updated by its creator, whose next PUT carries a
\* title, a topic and an empty steps array and is answered 400
C12_Witness ==
  /\ rlast.op = "update"
  /\ \E id \in RoadmapIds, h \in Callers, body \in Bodies :
       /\ roadmaps[id].exists
       /\ authenticate(users, now, h).user = roadmaps[id].createdBy
       /\ body.steps = <<>>
       /\ body.title # ""
       /\ updateRoadmap(roadmaps, users, now, h, id, body).status = 400
       /\ updateRoadmap(roadmaps, users, now, h, id, body).roadmaps
            = roadmaps

\* the users of a likes list
Likers(list) == {list[i] : i \in 1..Len(list)}

\* C13: POST /roadmaps/:id/like flips the caller's membership in the likes
\* of the roadmap: an absent caller is added and told liked = true, a
\* present one is removed and told liked = false, so that two calls in a
\* row by one user restore the likes set; after every call no user is in
\* the list twice, the likes of the other users are as they were, and
\* likeCount is the size of the likes set.
C13_LikeToggle ==
  \A id \in RoadmapIds :
    roadmaps[id].exists =>
      /\ Cardinality(Likers(roadmaps[id].likes)) = Len(roadmaps[id].likes)
      /\ \A h \in Callers :
           LET auth   == authenticate(users, now, h)
               old    == roadmaps[id].likes
               first  == toggleLike(roadmaps, users, now, h, id)
               new    == first.roadmaps[id].likes
               second == toggleLike(first.roadmaps, users, now, h, id)
           IN auth.status = 0 =>
                /\ first.status = 200
                /\ first.liked = (auth.user \notin Likers(old))
                /\ first.liked = (auth.user \in Likers(new))
                /\ Likers(new) \ {auth.user} = Likers(old) \ {auth.user}
                /\ Cardinality(Likers(new)) = Len(new)
                /\ first.likeCount = Cardinality(Likers(new))
                /\ second.status = 200
                /\ second.liked = ~first.liked
                /\ Likers(second.roadmaps[id].likes) = Likers(old)
                /\ second.likeCount = Cardinality(Likers(old))
                /\ \A other \in RoadmapIds \ {id} :
                     first.roadmaps[other] = roadmaps[other]

\* both users like a roadmap, the one served last by a like request, so
\* that the next call of either is an unlike
C13_Witness ==
  /\ rlast.op = "like"
  /\ \E id \in RoadmapIds :
       /\ roadmaps[id].exists
       /\ Len(roadmaps[id].likes) = 2
       /\ rlast.user \in Likers(roadmaps[id].likes)
       /\ \E h \in Callers :
            /\ authenticate(users, now, h).user = rlast.user
            /\ ~toggleLike(roadmaps, users, now, h, id).liked

(***************************************************************************)
(* Claims about the listing and fetching routes and about the deletion of  *)
(* accounts, checked under SpecListing.                                    *)
(***************************************************************************)
\* the user a header stands for: the user of a token that verifies, NoUser
\* for every other header
Requester(h) ==
  LET tok == extractTokenFromHeader(h)
  IN IF tok # NullToken /\ JwtVerifyError(tok, now) = ""
     THEN findById(users, tok.id) ELSE NoUser

\* every roadmap of a list is in the collection and public
OnlyPublic(list) ==
  \A i \in 1..Len(list) :
    /\ list[i] \in RoadmapIds
    /\ roadmaps[list[i]].exists
    /\ roadmaps[list[i]].isPublic

\* C14: whoever asks, and whatever the search, difficulty, tags and paging
\* parameters are, the list of GET /roadmaps with public=true and the list
\* of GET /roadmaps/public hold only roadmaps whose isPublic is true;
\* without public=true the list of GET /roadmaps holds only roadmaps
\* created by the caller.
C14_PublicListing ==
  \A h \in AllHeaders, query \in Queries :
    LET r == listRoadmaps(roadmaps, users, now, h, query)
        p == listPublic(roadmaps, users, now, h, query)
    IN /\ IF query.public = JsonTrue
          THEN OnlyPublic(r.roadmaps)
          ELSE \A i \in 1..Len(r.roadmaps) :
                 /\ r.roadmaps[i] \in RoadmapIds
                 /\ roadmaps[r.roadmaps[i]].exists
                 /\ Requester(h) # NoUser
                 /\ roadmaps[r.roadmaps[i]].createdBy = Requester(h)
       /\ OnlyPublic(p.roadmaps)

\* the collection holds a public roadmap and a private one of another
\* user, and the public one is all that the user and a requester without
\* a token are listed with public=true and on /roadmaps/public
C14_Witness ==
  /\ rlast.op = "create"
  /\ \E a \in RoadmapIds, b \in RoadmapIds :
       /\ roadmaps[a].exists /\ roadmaps[a].isPublic
       /\ roadmaps[b].exists /\ ~roadmaps[b].isPublic
       /\ roadmaps[b].createdBy # 1
       /\ users[1].exists
       /\ LET query == [page |-> NoInt, limit |-> NoInt,
                        search |-> Undefined, difficulty |-> Undefined,
                        tags |-> Undefined, public |-> JsonTrue]
          IN /\ listRoadmaps(roadmaps, users, now, OwnerHeader,
                             query).roadmaps = <<a>>
             /\ listPublic(roadmaps, users, now, NoHeader,
                           query).roadmaps = <<a>>
             /\ listRoadmaps(roadmaps, users, now, AdminHeader,
                             [query EXCEPT !.public = Undefined]).status
                  = IF users[2].exists THEN 200 ELSE 401

\* C15: GET /api/roadmaps requires authentication unless public=true: with
\* public=true and no token, or a token that is not valid, the request is
\* served with 200 and the public roadmaps, and without public=true the
\* same request is answered 401.
C15_PublicWithoutToken ==
  \A h \in AllHeaders, query \in Queries :
    listValid(query) =>
      LET r == listRoadmaps(roadmaps, users, now, h, query)
      IN IF authenticate(users, now, h).status = 0
         THEN r.status = 200
         ELSE IF query.public = JsonTrue
         THEN r.status = 200 /\ OnlyPublic(r.roadmaps)
         ELSE r.status = 401

\* the part of C15 the code keeps: without a valid token the request is
\* answered 401 whatever the query says, and GET /roadmaps/public serves
\* the public roadmaps to every requester
C15_Kept ==
  \A h \in AllHeaders, query \in Queries :
    listValid(query) =>
      /\ listRoadmaps(roadmaps, users, now, h, query).status
           = IF authenticate(users, now, h).status = 0 THEN 200 ELSE 401
      /\ listPublic(roadmaps, users, now, h, query).status = 200

C17_DeleteAccount ==
  \A tok \in issued, password \in PasswordInputs :
    LET auth == authenticate(users, now, Bearer(tok))
        r    == deleteAccount(users, now, Bearer(tok), password)
    IN auth.status = 0 =>
         IF password = ""
         THEN r.status = 400 /\ r.users = users
         ELSE IF ~comparePassword(users[auth.user], password)
         THEN r.status = 401 /\ r.users = users /\ r.minted = {}
         ELSE /\ r.status = 200
              /\ ~r.users[auth.user].exists
              /\ \A i \in UserIds \ {auth.user} : r.users[i] = users[i]

\* an account has been deleted with its password; the other user, who has
\* created a roadmap and holds a refresh token, asks for the deletion of
\* its account with the password of the deleted one and is answered 401
C17_Witness ==
  /\ last.op = "deleteAccount"
  /\ \E tok \in issued, password \in GoodPasswords :
       LET auth == authenticate(users, now, Bearer(tok))
       IN /\ auth.status = 0
          /\ users[auth.user].refreshTokens # <<>>
          /\ \E id \in RoadmapIds :
               roadmaps[id].exists /\ roadmaps[id].createdBy = auth.user
          /\ deleteAccount(users, now, Bearer(tok), password).status = 401

(***************************************************************************)
(* Claims about registrations, checked under SpecRegister.                 *)
(***************************************************************************)
\* some user has this e-mail address, compared ignoring case
EmailTaken(email) ==
  \E i \in UserIds :
    users[i].exists /\ ToLowerCase(users[i].email) = ToLowerCase(email)

\* some user has this username
UsernameTaken(username) ==
  \E i \in UserIds : users[i].exists /\ users[i].username = username

\* the part of C18 the code keeps: no two users share an e-mail address or
\* a username, and a registration that finds the collection as it is when
\* it is answered gets 409 with field "email" for an e-mail address that
\* is taken, 409 with field "username" for a username that is taken and an
\* e-mail address that is free, and creates no user and no token
C18_Kept ==
  /\ \A i \in UserIds, j \in UserIds :
       (i # j /\ users[i].exists /\ users[j].exists) =>
         /\ ToLowerCase(users[i].email) # ToLowerCase(users[j].email)
         /\ users[i].username # users[j].username
  /\ \A who \in Registrants :
       LET r == register(users, now, nextId + 1, who[1], who[2], "Passw0rd")
       IN /\ EmailTaken(who[2]) =>
               /\ r.status = 409 /\ r.field = "email"
               /\ r.users = users /\ r.minted = {}
          /\ (UsernameTaken(who[1]) /\ ~EmailTaken(who[2])) =>
               /\ r.status = 409 /\ r.field = "username"
               /\ r.users = users /\ r.minted = {}

\* C18: after any sequence and any interleaving of registrations no two
\* users share an e-mail address (compared ignoring case) or a username: a
\* registration whose e-mail address is that of an existing user is always
\* answered 409 with field "email", one whose username is taken is
\* answered 409 naming the username, and neither creates a user or a
\* token.
C18_Registration ==
  /\ []C18_Kept
  /\ [][\A p \in Procs :
          (pend[p].op = "checked" /\ pend'[p] = Idle) =>
            /\ users' = users
            /\ issued' = issued
            /\ last'.field \in {"email", "username"}
            /\ EmailTaken(pend[p].doc.email) => last'.field = "email"
            /\ last'.field = "username" =>
                 UsernameTaken(pend[p].doc.username)]_vars

(***************************************************************************)
(* Claims about login and logout, checked under Spec.                      *)
(***************************************************************************)
\* the identifiers a client can log in with; nobody registers as carol
LoginIdentifiers == Usernames \cup EmailInputs \cup {"carol"}

\* C19: a login with an identifier of no user and a login with the
\* identifier of a user and a wrong password get the same answer, 401 with
\* the code INVALID_CREDENTIALS, and neither changes what is stored (no
\* lastLoginAt, no refresh token), so that the answer does not tell
\* whether the identifier exists.
C19_LoginSilent ==
  \A identifier \in LoginIdentifiers, password \in PasswordInputs \ {""} :
    LET uid == findByEmailOrUsername(users, identifier)
        r   == login(users, now, identifier, password)
    IN IF uid = NoUser \/ ~comparePassword(users[uid], password)
       THEN /\ r.status = 401
            /\ r.code = "INVALID_CREDENTIALS"
            /\ r.users = users
            /\ r.minted = {}
            /\ r = Reject(users, 401, "INVALID_CREDENTIALS")
       ELSE r.status = 200

\* a user has logged in; a login with its username and a wrong password
\* and a login with a username nobody has are answered alike
C19_Witness ==
  /\ last.op = "login"
  /\ \E known \in Usernames, unknown \in Usernames,
        password \in GoodPasswords :
       /\ findByEmailOrUsername(users, known) = last.user
       /\ ~comparePassword(users[last.user], password)
       /\ findByEmailOrUsername(users, unknown) = NoUser
       /\ login(users, now, known, password).status = 401
       /\ login(users, now, known, password)
            = login(users, now, unknown, password)

\* C20: POST /auth/logout with a refreshToken in the body removes that
\* token from the stored list of the caller and leaves every other token
\* of the list, and their order, as they were (a token that is not in the
\* list removes nothing, and the answer is 200 all the same); without a
\* refreshToken in the body the list is emptied; the list of no other user
\* changes.
C20_Logout ==
  \A tok \in issued, T \in BodyTokens :
    LET auth == authenticate(users, now, Bearer(tok))
        r    == logout(users, now, Bearer(tok), T)
        old  == users[auth.user].refreshTokens
        new  == r.users[auth.user].refreshTokens
    IN auth.status = 0 =>
         /\ r.status = 200
         /\ r.minted = {}
         /\ \A i \in UserIds \ {auth.user} : r.users[i] = users[i]
         /\ [r.users[auth.user] EXCEPT !.refreshTokens = old]
              = users[auth.user]
         /\ IF T = NullToken
            THEN new = <<>>
            ELSE /\ new = SelectSeq(old, LAMBDA entry : entry.token # T)
                 /\ ~SomeToken(new, T)
                 /\ ~SomeToken(old, T) => new = old

\* a logout has removed one refresh token of a user and left another
C20_Witness ==
  /\ last.op = "logout"
  /\ users[last.user].exists
  /\ users[last.user].refreshTokens # <<>>
  /\ \E T \in IssuedRefresh(last.user) :
       ~SomeToken(users[last.user].refreshTokens, T)

(***************************************************************************)
(* Claims about the AI roadmap service, checked under SpecParse.           *)
(***************************************************************************)
\* the ids of the nodes of a returned roadmap, in the order of the nodes
NodeIdsOf(roadmap) == [i \in 1..Len(roadmap.nodes) |-> roadmap.nodes[i].id]

\* an edge that joins two different nodes of a returned roadmap
Joins(edge, roadmap) ==
  /\ Includes(NodeIdsOf(roadmap), edge.source)
  /\ Includes(NodeIdsOf(roadmap), edge.target)
  /\ edge.source # edge.target

\* the response has no edges array, or no edge of it joins two different
\* nodes of the returned roadmap
NoUsableEdge ==
  \/ llm.response.edges.kind # "array"
  \/ \A i \in 1..Len(llm.response.edges.items) :
       ~Joins(llm.response.edges.items[i], llm.roadmap)

\* C21: when the edges of the parsed response are absent, not an array or
\* hold no valid edge, the returned roadmap of n nodes has exactly n-1
\* edges (none for n <= 1), the i-th from the id of the i-th returned node
\* to the id of the (i+1)-th: read from its first source along its targets,
\* the chain is the list of the returned nodes, each once, in their order.
C21_SequentialChain ==
  (llm.roadmap.state = "returned" /\ NoUsableEdge) =>
    LET n     == Len(llm.roadmap.nodes)
        edges == llm.roadmap.edges
    IN /\ Len(edges) = IF n <= 1 THEN 0 ELSE n - 1
       /\ \A i \in 1..Len(edges) :
            /\ edges[i].source = llm.roadmap.nodes[i].id
            /\ edges[i].target = llm.roadmap.nodes[i + 1].id
       /\ n > 1 =>
            <<edges[1].source>> \o [i \in 1..Len(edges) |-> edges[i].target]
              = NodeIdsOf(llm.roadmap)

\* three nodes came back and the edges of the response, all dangling, were
\* replaced by the chain
C21_Witness ==
  /\ llm.roadmap.state = "returned"
  /\ Len(llm.roadmap.nodes) = MaxNodes
  /\ llm.response.edges.kind = "array"
  /\ Len(llm.response.edges.items) = MaxEdges
  /\ NoUsableEdge
  /\ Len(llm.roadmap.edges) = MaxNodes - 1

\* C22: for every response that parses, every edge of the returned roadmap
\* has a source and a target that are ids of returned nodes, and its source
\* differs from its target.
C22_EdgesJoinNodes ==
  llm.roadmap.state = "returned" =>
    \A i \in 1..Len(llm.roadmap.edges) :
      Joins(llm.roadmap.edges[i], llm.roadmap)

\* what holds of C22: both ends of every returned edge are ids of returned
\* nodes, and an edge taken from the response has two different ends
C22_Kept ==
  llm.roadmap.state = "returned" =>
    /\ \A i \in 1..Len(llm.roadmap.edges) :
         /\ Includes(NodeIdsOf(llm.roadmap), llm.roadmap.edges[i].source)
         /\ Includes(NodeIdsOf(llm.roadmap), llm.roadmap.edges[i].target)
    /\ ~NoUsableEdge =>
         \A i \in 1..Len(llm.roadmap.edges) :
           Joins(llm.roadmap.edges[i], llm.roadmap)

(***************************************************************************)
(* Claims about the auth context of the browser, checked under             *)
(* SpecContext.                                                            *)
(***************************************************************************)
\* the value stored under a key of localStorage, null when the key is absent
Stored(key) == IF storage[key] = Null THEN Null ELSE JsonParse(storage[key])

\* hydration has finished and every call has completed
Settled == ctx.mounted /\ calls = {}

\* C23: once hydration has finished and after each completed login,
\* register, logout, refreshToken and updateUser call, the user in memory
\* is the value stored under auth_user and the tokens in memory are the
\* value stored under auth_tokens (null when the key is absent), user and
\* tokens are both present or both null, and isAuthenticated is true
\* exactly when both are present.
C23_Mirrored ==
  Settled =>
    /\ ctx.user = Stored("auth_user")
    /\ ctx.tokens = Stored("auth_tokens")
    /\ (ctx.user = Null) <=> (ctx.tokens = Null)
    /\ isAuthenticated(ctx) <=> (ctx.user # Null /\ ctx.tokens # Null)

\* what holds of C23: a context that is authenticated mirrors localStorage,
\* and isAuthenticated is true exactly when user and tokens are present
C23_Kept ==
  Settled =>
    /\ isAuthenticated(ctx) =>
         /\ ctx.user = Stored("auth_user")
         /\ ctx.tokens = Stored("auth_tokens")
    /\ isAuthenticated(ctx) <=> (ctx.user # Null /\ ctx.tokens # Null)

\* the Authorization header that carries the access token stored by the
\* last successful login, register or refreshToken
BearerStored == "Bearer " \o accessTokenOf(Stored("auth_tokens"))

\* C24: every authenticated HTTP call the browser issues while a user is
\* logged in, the roadmap list and the roadmap delete of the Dashboard
\* included, carries Authorization: Bearer <t>, t being the access token
\* stored by the most recent successful login, register or refreshToken.
C24_BearerEverywhere ==
  DashboardShown =>
    /\ apiRequest(ctx, "logout", "/auth/logout").authorization = BearerStored
    /\ dashboardRequest(storage, "fetchRoadmaps", "/roadmaps").authorization
         = BearerStored
    /\ dashboardRequest(storage, "deleteRoadmap", "/roadmaps/:id").authorization
         = BearerStored

\* what holds of C24: the requests of the auth context itself carry the
\* stored access token
C24_Kept ==
  DashboardShown =>
    apiRequest(ctx, "logout", "/auth/logout").authorization = BearerStored

(***************************************************************************)
(* Claims about requests of one account served at the same time.           *)
(***************************************************************************)
\* C25: the check-and-replace of POST /auth/refresh is atomic with respect
\* to other refresh requests: a refresh that is answered 200 replaces the
\* token it presented, which is therefore still in the stored list when
\* the request writes the list, so that of two refresh requests that
\* present the same stored token at most one is answered 200 and the list
\* holds one replacement.  Checked under SpecConc.
C25_AtomicRefresh ==
  [][\A p \in Procs :
       (pend[p].op = "refresh" /\ pend'[p] = Idle) =>
         SomeToken(users[pend[p].uid].refreshTokens, pend[p].presented)]_vars

\* what holds of C25: a refresh passes the check only with a token that is
\* in the stored list at the time of the check
C25_Kept ==
  \A refreshToken \in issued :
    refresh(users, now, refreshToken).status = 200 =>
      \E uid \in UserIds :
        /\ users[uid].exists
        /\ SomeToken(users[uid].refreshTokens, refreshToken)

\* C26: a login writes back the whole list it read, with no version check:
\* when a login saves, the stored list becomes the login's copy, and a
\* refresh token that another request of the account stored since the
\* login read the user is not in the list any more and is rejected by
\* /auth/refresh with 401.  Checked under SpecLogins, where the witness is
\* the lost update of the claim.
C26_LostUpdate ==
  [][\A p \in Procs :
       (pend[p].op = "login" /\ pend'[p] = Idle) =>
         /\ users'[pend[p].uid].refreshTokens = pend[p].doc.refreshTokens
         /\ \A tok \in IssuedRefresh(pend[p].uid) :
              ~SomeToken(pend[p].doc.refreshTokens, tok) =>
                /\ ~SomeToken(users'[pend[p].uid].refreshTokens, tok)
                /\ refresh(users', now', tok).status = 401]_vars

\* two logins of the registered account were both answered 200; the list
\* holds the token of the registration and that of one login, and the
\* refresh token the other login returned, which is younger than the
\* registration, is not in the list: /auth/refresh rejects it
C26_Witness ==
  /\ \A p \in Procs : pend[p] = Idle
  /\ \E uid \in UserIds :
       /\ users[uid].exists
       /\ Len(users[uid].refreshTokens) = 2
       /\ \E tok \in IssuedRefresh(uid) :
            /\ \E i \in 1..Len(users[uid].refreshTokens) :
                 users[uid].refreshTokens[i].token.iat < tok.iat
            /\ ~SomeToken(users[uid].refreshTokens, tok)
            /\ refresh(users, now, tok).status = 401

\* the flags of the steps of a roadmap
FlagsOf(doc) == [j \in 1..Len(doc.steps) |-> doc.steps[j].isCompleted]

\* C27: roadmap writes have no control beyond the document: when a step
\* completion saves, the persisted roadmap has the flag of its step and the
\* progress block of its own copy, computed from the steps as the task
\* read them; where another request has changed one other step since, the
\* persisted roadmap reflects only one of the two changes, in its flags
\* (the other flag is back to what the task read) or in its progress block
\* (it does not count the other step).  Checked under SpecSteps, where the
\* witness is the lost update of the claim.
C27_LostStep ==
  [][\A p \in Procs :
       (pend[p] # Idle /\ pend'[p] = Idle) =>
         LET mine   == pend[p].doc
             stored == roadmaps[pend[p].id]
             after  == roadmaps'[pend[p].id]
             k      == FindStep(mine.steps, pend[p].stepId)
             elsewhere == {j \in 1..Len(mine.steps) :
                             /\ j # k
                             /\ stored.steps[j].isCompleted
                                  # mine.steps[j].isCompleted}
         IN /\ after.steps[k].isCompleted = mine.steps[k].isCompleted
            /\ after.progress = mine.progress
            /\ after.progress.completedSteps = CountCompleted(mine.steps)
            /\ Cardinality(elsewhere) = 1 =>
                 \/ FlagsOf(after) = FlagsOf(mine)
                 \/ after.progress.completedSteps
                      # CountCompleted(after.steps)]_vars

\* two completions of different steps were both answered 200, and the
\* persisted roadmap shows one of them only: two flags are set and the
\* progress block counts one step, 50 percent of two
C27_Witness ==
  /\ \A p \in Procs : pend[p] = Idle
  /\ rlast.op = "complete"
  /\ Len(roadmaps[1].steps) = 2
  /\ CountCompleted(roadmaps[1].steps) = 2
  /\ roadmaps[1].progress.completedSteps = 1
  /\ roadmaps[1].progress.percentage = 50

(***************************************************************************)
(* Claims about the chat of the browser, checked under SpecChat.           *)
(***************************************************************************)
\* the places of the replies to a question in a transcript
RepliesTo(content, messages) ==
  {k \in DOMAIN messages :
     /\ messages[k].type = "assistant"
     /\ messages[k].content = generateAIResponse(content, RoadmapNode("A", "pending"))}

\* the timer of the reply to a question has not fired yet
Waiting(content) ==
  \E t \in DOMAIN timers :
    timers[t].content = generateAIResponse(content, RoadmapNode("A", "pending"))

\* C28: once the timer of a user message sent in the chat of a node has
\* fired, the transcript of that node holds exactly one reply to the message
\* and the transcript of no other node holds one, whatever the user did
\* (closeChat, openChat, sendMessage) while the timer ran
C28_ReplyInTranscript ==
  \A at \in UserMessages(store.chatSessions) :
    LET own == store.chatSessions[at[1]]
        content == own.messages[at[2]].content
    IN  ~Waiting(content) =>
          /\ Cardinality(RepliesTo(content, own.messages)) = 1
          /\ \A i \in DOMAIN store.chatSessions :
               i # at[1] =>
                 RepliesTo(content, store.chatSessions[i].messages) = {}

\* what the store does keep: a user message gets at most one reply over all
\* transcripts, and none while its timer runs
C28_Kept ==
  \A at \in UserMessages(store.chatSessions) :
    LET content == store.chatSessions[at[1]].messages[at[2]].content
        replies == {<<i, k>> \in (DOMAIN store.chatSessions)
                                   \X (1..(1 + 2 * MaxMessages)) :
                      k \in RepliesTo(content, store.chatSessions[i].messages)}
    IN  /\ Cardinality(replies) <= 1
        /\ Waiting(content) => replies = {}

\* C29: at most one session per node id; the chat is open exactly when there
\* is an active session; the active session has a session of its id in
\* chatSessions, with the same messages
C29_StoreInvariants ==
  /\ \A i, j \in DOMAIN store.chatSessions :
       store.chatSessions[i].nodeId = store.chatSessions[j].nodeId => i = j
  /\ store.isChatOpen <=> store.activeChatSession # Null
  /\ store.activeChatSession # Null =>
       \E i \in DOMAIN store.chatSessions :
         /\ store.chatSessions[i].id = store.activeChatSession.id
         /\ store.chatSessions[i].messages = store.activeChatSession.messages

\* a chat that was closed and opened again, with a question, its reply and a
\* status change behind it, and a session of the other node
C29_Witness ==
  /\ store.isChatOpen
  /\ Len(store.chatSessions) = 2
  /\ store.activeChatSession # Null
  /\ Len(store.activeChatSession.messages) >= 3
  /\ store.activeChatSession.id = store.chatSessions[1].id
  /\ timers = <<>>
  /\ \E id \in ChatNodes : store.currentRoadmap.nodes[id].status = "done"

(***************************************************************************)
(* Claims about deleted accounts, checked under Spec.                      *)
(***************************************************************************)
\* the ids of the accounts that were registered and have been deleted
DeletedUsers == {i \in UserIds : i <= nextId /\ ~users[i].exists}

\* C30: once an account is deleted, every token the server has issued to
\* that user is answered 401 by the required authentication (and so by the
\* handlers behind it, logout and account deletion among them) and 401 by
\* POST /auth/refresh, which mints nothing and writes nothing
C30_DeletedUserLockedOut ==
  \A tok \in issued :
    tok.id \in DeletedUsers =>
      LET auth == authenticate(users, now, Bearer(tok))
          out  == logout(users, now, Bearer(tok), NullToken)
          gone == deleteAccount(users, now, Bearer(tok), "Passw0rd")
          r    == refresh(users, now, tok)
      IN /\ auth.status = 401 /\ auth.user = NoUser
         /\ out.status = 401 /\ out.users = users
         /\ gone.status = 401 /\ gone.users = users
         /\ r.status = 401 /\ r.minted = {} /\ r.users = users

\* an account has been deleted while an access token and a refresh token
\* issued to its user still verify, and the other account is in use
C30_Witness ==
  /\ \E access, renew \in issued :
       /\ access.id \in DeletedUsers
       /\ renew.id = access.id
       /\ verifyToken(access, now).ok
       /\ access.username # "undefined"
       /\ verifyRefreshToken(renew, now).ok
  /\ \E tok \in issued : authenticate(users, now, Bearer(tok)).status = 0

====
